---- MODULE Spec2Model ----
(***************************************************************************)
(* Query understanding and data relevance pipeline of the TikTok research  *)
(* chatbot backend: term extraction (app.py), dataset relevance scoring    *)
(* (data_loader.py), cross-dataset filtering and visualization payloads    *)
(* (visualization.py), and the /chat orchestration (app.py).               *)
(*                                                                         *)
(* Python strings are TLA+ strings (TLC evaluates Len, SubSeq, Head, Tail  *)
(* and \o on them); the regular expressions of the source are evaluated on *)
(* the characters of the string, left to right, as re.findall does.  The   *)
(* only whitespace character of the modelled alphabet is the space.        *)
(***************************************************************************)
EXTENDS Integers, Sequences, FiniteSets, TLC

\* Python's None, and a present value: an optional is a sequence of length <= 1.
NONE == <<>>
Some(v) == <<v>>

(***************************************************************************)
(* String primitives                                                       *)
(***************************************************************************)
Char(s, i) == SubSeq(s, i, i)

\* Python: needle in hay
Contains(hay, needle) ==
  \E i \in 1..(Len(hay) - Len(needle) + 1) : SubSeq(hay, i, i + Len(needle) - 1) = needle

\* Python: s.startswith(p)
StartsWith(s, p) == Len(p) <= Len(s) /\ SubSeq(s, 1, Len(p)) = p

\* the text of s at position p is w
LitAt(s, p, w) == p + Len(w) - 1 <= Len(s) /\ SubSeq(s, p, p + Len(w) - 1) = w

UpperChars == "ABCDEFGHIJKLMNOPQRSTUVWXYZÁÉÍÓÚÑÜ"
LowerChars == "abcdefghijklmnopqrstuvwxyzáéíóúñü"
DigitChars == "0123456789"

\* the characters of a string
CharsOf(s) == {Char(s, i) : i \in 1..Len(s)}

\* the lower-case letter of every upper-case letter
LowerMap ==
  [c \in CharsOf(UpperChars) |->
     Char(LowerChars, CHOOSE i \in 1..Len(UpperChars) : Char(UpperChars, i) = c)]

LowerChar(c) == IF c \in DOMAIN LowerMap THEN LowerMap[c] ELSE c

\* Python: s.lower()
RECURSIVE lower(_)
lower(s) == IF s = "" THEN "" ELSE LowerChar(Head(s)) \o lower(Tail(s))

\* Python: s.strip()
RECURSIVE lstrip(_)
lstrip(s) == IF s # "" /\ Head(s) = " " THEN lstrip(Tail(s)) ELSE s
RECURSIVE rstrip(_)
rstrip(s) == IF s # "" /\ Char(s, Len(s)) = " " THEN rstrip(SubSeq(s, 1, Len(s) - 1)) ELSE s
strip(s) == rstrip(lstrip(s))

\* State variables hold strings in a 7-bit transliteration, because TLC stores the
\* strings of a state bytewise: an accented letter is a mark followed by its base
\* letter.  unicode() gives the Python string, ascii() the transliteration.
AccentedLetters == "áéíóúñüÁÉÍÓÚÑÜ"
AccentCodes ==
  <<"^a", "^e", "^i", "^o", "^u", "~n", ":u", "^A", "^E", "^I", "^O", "^U", "~N", ":U">>
AccentMarks == "^~:"

\* the accented letter of every code, and the code of every accented letter
AccentOf == [code \in {AccentCodes[i] : i \in 1..Len(AccentCodes)} |->
               Char(AccentedLetters, CHOOSE i \in 1..Len(AccentCodes) : AccentCodes[i] = code)]
CodeOf == [c \in CharsOf(AccentedLetters) |->
             AccentCodes[CHOOSE i \in 1..Len(AccentedLetters) : Char(AccentedLetters, i) = c]]

RECURSIVE unicode(_)
unicode(s) ==
  IF s = "" THEN ""
  ELSE IF Len(s) >= 2 /\ Head(s) \in CharsOf(AccentMarks)
       THEN AccentOf[SubSeq(s, 1, 2)] \o unicode(SubSeq(s, 3, Len(s)))
       ELSE Head(s) \o unicode(Tail(s))

RECURSIVE ascii(_)
ascii(s) ==
  IF s = "" THEN ""
  ELSE (IF Head(s) \in DOMAIN CodeOf THEN CodeOf[Head(s)] ELSE Head(s)) \o ascii(Tail(s))

\* ascii on an optional
asciiOpt(o) == IF o = NONE THEN NONE ELSE Some(ascii(o[1]))

\* the regex class [a-záéíóúñüA-ZÁÉÍÓÚÑÜ]
Letters == CharsOf(LowerChars) \cup CharsOf(UpperChars)
IsLetter(c) == c \in Letters
\* the regex class \w, on the modelled alphabet
WordChars == Letters \cup CharsOf(DigitChars) \cup {"_"}
IsWordChar(c) == c \in WordChars
\* Python: s.isdigit()
RECURSIVE AllDigits(_)
AllDigits(s) == s = "" \/ (Head(s) \in CharsOf(DigitChars) /\ AllDigits(Tail(s)))
isdigit(s) == s # "" /\ AllDigits(s)

\* the longest run of letters of s that starts at position p
RECURSIVE LetterRun(_, _)
LetterRun(s, p) ==
  IF p <= Len(s) /\ IsLetter(Char(s, p)) THEN Char(s, p) \o LetterRun(s, p + 1) ELSE ""

\* \s+ at position p: the position after the spaces, 0 when there is none
RECURSIVE SkipSpaces(_, _)
SkipSpaces(s, p) == IF p <= Len(s) /\ Char(s, p) = " " THEN SkipSpaces(s, p + 1) ELSE p
Spaces1(s, p) == IF p <= Len(s) /\ Char(s, p) = " " THEN SkipSpaces(s, p + 1) ELSE 0

\* re.findall(r'\b([a-záéíóúñüA-ZÁÉÍÓÚÑÜ]+)\b', s): the maximal letter runs that have
\* a word boundary on both sides.  prevw: the previous character is a \w character;
\* run: the letters read so far; ok: the run started at a word boundary.
RECURSIVE WordScan(_, _, _, _)
WordScan(s, prevw, run, ok) ==
  IF s = "" THEN (IF run # "" /\ ok THEN <<run>> ELSE <<>>)
  ELSE LET c == Head(s) IN
       IF IsLetter(c)
       THEN IF run = "" THEN WordScan(Tail(s), TRUE, c, ~prevw)
                        ELSE WordScan(Tail(s), TRUE, run \o c, ok)
       ELSE (IF run # "" /\ ok /\ ~IsWordChar(c) THEN <<run>> ELSE <<>>)
            \o WordScan(Tail(s), IsWordChar(c), "", FALSE)
FindWords(s) == WordScan(s, FALSE, "", FALSE)

(***************************************************************************)
(* The contextual regular expressions.  A pattern is                       *)
(*   lead: literal words, each followed by \s+ ;                           *)
(*   art:  "opt" for (?:la\s+|el\s+|una\s+|un\s+)? , "req" for the same    *)
(*         group without the ?, "no" for no such group;                     *)
(*   cap:  "alpha" for ([a-záéíóúñüA-ZÁÉÍÓÚÑÜ]{min,}), or a quote          *)
(*         character q for q([^q]+)q .                                      *)
(***************************************************************************)
Pat(lead, art, cap, min) == [lead |-> lead, art |-> art, cap |-> cap, min |-> min]

Articles == <<"la", "el", "una", "un">>

\* the position after lead[k], \s+, lead[k+1], \s+, ... matched at p; 0: no match
RECURSIVE MatchLead(_, _, _, _)
MatchLead(s, p, lead, k) ==
  IF k > Len(lead) THEN p
  ELSE IF LitAt(s, p, lead[k])
       THEN LET q == Spaces1(s, p + Len(lead[k]))
            IN  IF q = 0 THEN 0 ELSE MatchLead(s, q, lead, k + 1)
       ELSE 0

\* the characters of s from p up to (not including) the next c
RECURSIVE UntilChar(_, _, _)
UntilChar(s, p, c) ==
  IF p > Len(s) \/ Char(s, p) = c THEN "" ELSE Char(s, p) \o UntilChar(s, p + 1, c)

\* the capture group at position q: <<text, position after the match>>, or <<>>
Capture(s, q, cap, min) ==
  IF cap = "alpha"
  THEN LET r == LetterRun(s, q)
       IN  IF Len(r) >= min THEN <<r, q + Len(r)>> ELSE <<>>
  ELSE IF LitAt(s, q, cap)
       THEN LET inner == UntilChar(s, q + 1, cap)
            IN  IF inner # "" /\ LitAt(s, q + 1 + Len(inner), cap)
                THEN <<inner, q + Len(inner) + 2>>
                ELSE <<>>
       ELSE <<>>

\* (?:la\s+|el\s+|una\s+|un\s+) at position q: the position after it, 0: no match
ArticleAt(s, q) ==
  LET m == {i \in 1..Len(Articles) :
              LitAt(s, q, Articles[i]) /\ Spaces1(s, q + Len(Articles[i])) # 0}
  IN  IF m = {} THEN 0
      ELSE LET i == CHOOSE i \in m : \A j \in m : i <= j
           IN  Spaces1(s, q + Len(Articles[i]))

\* one match attempt of pat at position p: <<capture, position after it>>, or <<>>
MatchAt(pat, s, p) ==
  LET q == MatchLead(s, p, pat.lead, 1)
  IN  IF q = 0 THEN <<>>
      ELSE IF pat.art = "no" THEN Capture(s, q, pat.cap, pat.min)
      ELSE LET a == ArticleAt(s, q)
               viaArt == IF a = 0 THEN <<>> ELSE Capture(s, a, pat.cap, pat.min)
           IN  IF viaArt # <<>> THEN viaArt
               ELSE IF pat.art = "opt" THEN Capture(s, q, pat.cap, pat.min)
               ELSE <<>>

\* re.findall(pattern, s): the captures of the non-overlapping matches, left to right
RECURSIVE FindFrom(_, _, _)
FindFrom(pat, s, p) ==
  IF p > Len(s) THEN <<>>
  ELSE LET m == MatchAt(pat, s, p)
       IN  IF m = <<>> THEN FindFrom(pat, s, p + 1)
           ELSE <<m[1]>> \o FindFrom(pat, s, m[2])
findall(pat, s) == FindFrom(pat, s, 1)

Range(f) == {f[i] : i \in DOMAIN f}

\* the first element of seq that is in the set good, as an optional
FirstWhere(seq, good) ==
  LET I == {i \in 1..Len(seq) : seq[i] \in good}
  IN  IF I = {} THEN NONE ELSE Some(seq[CHOOSE i \in I : \A j \in I : i <= j])

(***************************************************************************)
(* extract_word_with_regex_fallback (app.py 115-249)                       *)
(***************************************************************************)
patterns == <<
  Pat(<<"palabra">>, "opt", "alpha", 1),
  Pat(<<"sobre", "la", "palabra">>, "no", "alpha", 1),
  Pat(<<"datos", "relevantes", "sobre", "la", "palabra">>, "no", "alpha", 1),
  Pat(<<"relevantes", "sobre", "la", "palabra">>, "no", "alpha", 1),
  Pat(<<"sobre">>, "opt", "alpha", 1),
  Pat(<<"datos", "sobre">>, "opt", "alpha", 1),
  Pat(<<"información", "sobre">>, "opt", "alpha", 1),
  Pat(<<"datos", "de">>, "opt", "alpha", 1),
  Pat(<<"información", "de">>, "opt", "alpha", 1),
  Pat(<<"análisis", "de">>, "opt", "alpha", 1),
  Pat(<<>>, "req", "alpha", 4) >>

\* app.py 145-203
spanish_meaningless_words ==
  {
    "e", "o", "u", "y", "da", "de", "el", "en", "es", "ir", "la", "le", "lo", "me", "mi", "ni",
    "no", "os", "se", "si", "su", "sí", "te", "tu", "tú", "un", "va", "ve", "yo", "él", "acá",
    "ahí", "así", "año", "con", "dan", "dar", "del", "dos", "día", "esa", "ese", "eso", "hay",
    "hoy", "las", "les", "los", "mal", "mas", "mes", "muy", "más", "mío", "nos", "por", "que",
    "qué", "ser", "sin", "son", "tal", "tan", "una", "uno", "van", "ven", "ver", "vez", "algo",
    "allá", "allí", "alto", "ante", "aquí", "ayer", "años", "bajo", "bien", "cada", "como",
    "cosa", "cuál", "cómo", "dame", "diez", "dime", "días", "ella", "esas", "esos", "esta",
    "este", "esto", "está", "hace", "hola", "nada", "ocho", "otra", "otro", "para", "peor",
    "pero", "poco", "pues", "seis", "sino", "solo", "suyo", "todo", "tras", "tres", "tuyo",
    "unas", "unos", "ahora", "antes", "aquel", "chart", "cinco", "corto", "cosas", "crear",
    "datos", "decir", "desde", "donde", "dónde", "ellas", "ellos", "entre", "estar", "estas",
    "estos", "están", "haber", "habrá", "había", "hacen", "hacer", "hacia", "hasta", "largo",
    "luego", "mayor", "mejor", "menor", "menos", "meses", "misma", "mismo", "mucho", "nueve",
    "nuevo", "nunca", "otras", "otros", "pasar", "poder", "poner", "quién", "saber", "salir",
    "según", "siete", "sobre", "tabla", "tales", "tanto", "tener", "tiene", "todas", "todos",
    "veces", "venir", "viejo", "viene", "además", "aunque", "buscar", "charts", "contra",
    "cuando", "cuatro", "cuáles", "cuándo", "cuánta", "cuánto", "genera", "grande", "llegar",
    "mañana", "mismas", "mismos", "muchas", "muchos", "porque", "quedar", "querer", "semana",
    "tablas", "tiempo", "tienen", "varios", "vienen", "último", "algunas", "algunos",
    "aquella", "aquello", "cuántas", "cuántos", "después", "durante", "enseñar", "general",
    "generar", "grafico", "gráfico", "incluso", "mostrar", "muestra", "nuestro", "obtener",
    "palabra", "pequeño", "por qué", "primero", "quiénes", "resumen", "resúmen", "segundo",
    "semanas", "siempre", "también", "tampoco", "tercero", "término", "vuestro", "análisis",
    "aquellas", "aquellos", "bastante", "diagrama", "entonces", "explicar", "graficos",
    "gráficos", "mediante", "mientras", "nosotros", "palabras", "términos", "vosotros",
    "conseguir", "cualquier", "demasiado", "diagramas", "encontrar", "muéstrame", "solamente",
    "cualquiera", "específico", "particular", "relevantes", "información", "visualización",
    "visualizaciones"
  }

\* app.py 206-217
important_terms ==
  {
    "revolución", "democracia", "justicia", "libertad", "igualdad", "política", "gobierno",
    "corrupción", "protesta", "manifestación", "derecho", "derechos", "social", "económico",
    "economía", "educación", "salud", "trabajo", "empleo", "pobreza", "riqueza", "clase",
    "feminismo", "machismo", "género", "violencia", "paz", "guerra", "conflicto", "crisis",
    "cambio", "reforma", "transformación", "progreso", "conservador", "liberal", "izquierda",
    "derecha", "centro", "partido", "elecciones", "voto", "candidato", "presidente",
    "congreso", "senado", "diputado", "alcalde", "gobernador", "constitución", "ley", "norma",
    "decreto", "revolucion", "politica", "educacion", "economia"
  }

\* step 1: the word is a political/social term
IsImportantTerm(word) == word \in important_terms

\* step 2 without the length test
ContextualOk_NoLength(word) == word # "" /\ word \notin spanish_meaningless_words

\* step 2: a captured word is kept
ContextualOk(word) ==
  word # "" /\ word \notin spanish_meaningless_words /\ Len(word) > 3

\* step 3 without the blacklist test
GenericOk_NoBlacklist(word) == Len(word) > 3 /\ ~isdigit(word)

\* step 3: a word of the query is kept
GenericOk(word) ==
  word \notin spanish_meaningless_words /\ Len(word) > 3 /\ ~isdigit(word)

\* the captures of all patterns from the i-th on, in pattern order, each stripped
RECURSIVE ContextualMatches(_, _)
ContextualMatches(s, i) ==
  IF i > Len(patterns) THEN <<>>
  ELSE LET m == findall(patterns[i], s)
       IN  [k \in 1..Len(m) |-> strip(m[k])] \o ContextualMatches(s, i + 1)

\* the first step that found a word, given what each step found
FirstStep(s1, s2, s3) ==
  IF s1 # NONE THEN [word |-> s1, step |-> 1]
  ELSE IF s2 # NONE THEN [word |-> s2, step |-> 2]
  ELSE IF s3 # NONE THEN [word |-> s3, step |-> 3]
  ELSE [word |-> NONE, step |-> 4]

\* the three steps on the words of the query and the captures of the patterns
StepsOn(words_in_query, captures) ==
  FirstStep(FirstWhere(words_in_query, {w \in Range(words_in_query) : IsImportantTerm(w)}),
            FirstWhere(captures, {w \in Range(captures) : ContextualOk(w)}),
            FirstWhere(words_in_query, {w \in Range(words_in_query) : GenericOk(w)}))

\* the word returned and the step that returned it (4: nothing survived)
ExtractWithStep(query) ==
  StepsOn(FindWords(lower(query)), ContextualMatches(lower(query), 1))

extract_word_with_regex_fallback(query) == ExtractWithStep(query).word

\* extract_word_with_ai_parsing (app.py 108-113)
extract_word_with_ai_parsing(query) == extract_word_with_regex_fallback(query)

(***************************************************************************)
(* Datasets.  A table is a sequence of rows; a row is a record of its      *)
(* columns (strings).  The collection is a function from the dataset names *)
(* that are present to their tables.                                       *)
(***************************************************************************)
\* DataFrame.empty
empty(table) == Len(table) = 0

\* the names of the datasets of the collection that have rows
NonEmptyKeys(data) == {k \in DOMAIN data : ~empty(data[k])}

(***************************************************************************)
(* determine_relevant_datasets (data_loader.py 230-280)                    *)
(***************************************************************************)
\* data_loader.py 239-260
dataset_keywords ==
  [
    accounts |-> <<
      "cuenta", "creador", "usuario", "perfil", "seguidor", "influencer", "perspectiva",
      "ideología", "política", "orientación", "biografía", "followers", "creator", "account",
      "profile", "perspective", "ideology" >>,
    videos |-> <<
      "video", "contenido", "publicación", "post", "views", "visualización", "fecha", "tiempo",
      "temporal", "evolución", "tendencia", "viral", "content", "publication", "date", "time",
      "trend", "evolution" >>,
    subtitles |-> <<
      "subtítulo", "transcripción", "texto", "habla", "dice", "menciona", "palabra", "frase",
      "discurso", "conversación", "diálogo", "subtitle", "transcription", "text", "speech",
      "word", "phrase", "dialogue" >>,
    words |-> <<
      "palabra", "término", "sentimiento", "emoción", "análisis", "semántico", "significado",
      "connotación", "polaridad", "positivo", "negativo", "word", "term", "sentiment",
      "emotion", "meaning", "positive", "negative" >>
  ]

\* relevance scores are counted in units of 1/ScoreScale, a common multiple of the
\* keyword list lengths (17, 18) and of 10: 1.0 is ScoreScale and 0.3 is DefaultRelevance
ScoreScale == 17 * 18 * 10
DefaultRelevance == (3 * ScoreScale) \div 10

Min(a, b) == IF a <= b THEN a ELSE b

\* the number of keywords of the list that occur in the lower-cased query
KeywordHits(keywords, query_lower) ==
  Cardinality({i \in 1..Len(keywords) : Contains(query_lower, keywords[i])})

\* the count of the keywords found, not divided by the length of the list
NormalizedScore_Count(score, keywords) == score * ScoreScale

\* min(score / len(keywords), 1.0)
NormalizedScore(score, keywords) == Min((score * ScoreScale) \div Len(keywords), ScoreScale)

\* the datasets that take part in the scoring
ScoredKeys(data) == {k \in DOMAIN dataset_keywords : k \in DOMAIN data /\ ~empty(data[k])}

\* the default relevance handed out without the emptiness test
FallbackKeys_All(data) == DOMAIN data

\* the default relevance handed out to the datasets that have keywords only
FallbackKeys_OnlyScored(data) ==
  {k \in DOMAIN dataset_keywords : k \in DOMAIN data /\ ~empty(data[k])}

\* the datasets that get the default relevance when no keyword was found
FallbackKeys(data) == {k \in DOMAIN data : ~empty(data[k])}

determine_relevant_datasets(q, data) ==
  LET query_lower == lower(q)
      scored == [k \in ScoredKeys(data) |->
                   NormalizedScore(KeywordHits(dataset_keywords[k], query_lower),
                                   dataset_keywords[k])]
      relevance_scores ==
        IF ~(\E k \in DOMAIN scored : scored[k] > 0)
        THEN [k \in DOMAIN scored \cup FallbackKeys(data) |->
                IF k \in FallbackKeys(data) THEN DefaultRelevance ELSE scored[k]]
        ELSE scored
  IN  [k \in {d \in DOMAIN relevance_scores : relevance_scores[d] > 0} |-> relevance_scores[k]]

(***************************************************************************)
(* filter_data_by_query (visualization.py 14-228)                          *)
(***************************************************************************)
\* df.columns: the columns of a table that has rows
Columns(table) == IF empty(table) THEN {} ELSE DOMAIN table[1]

\* Series.astype(str).str.lower().str.contains(query_lower, regex=False), or-ed over
\* the columns of the list that the table has
RowMatches(row, cols, query_lower) ==
  \E c \in cols : c \in DOMAIN row /\ Contains(lower(row[c]), query_lower)

\* df[mask]
Mask(table, cols, query_lower) ==
  SelectSeq(table, LAMBDA row : RowMatches(row, cols, query_lower))

\* set(df[col].dropna().astype(str).tolist())
Values(table, col) == {table[i][col] : i \in 1..Len(table)}

\* the mask selects every row
IsIn_All(table, col, values) == table

\* df[df[col].astype(str).isin(values)]
IsIn(table, col, values) == SelectSeq(table, LAMBDA row : row[col] \in values)

\* DataFrame.drop_duplicates left out
drop_duplicates_Kept(table) == table

\* DataFrame.drop_duplicates: the first occurrence of every row, in order
RECURSIVE drop_duplicates(_)
drop_duplicates(table) ==
  IF empty(table) THEN <<>>
  ELSE LET front == drop_duplicates(SubSeq(table, 1, Len(table) - 1))
           last == table[Len(table)]
       IN  IF last \in Range(front) THEN front ELSE Append(front, last)

\* pd.concat([a, b], ignore_index=True, sort=False)
concat(a, b) == a \o b

\* "key in d and not d[key].empty"
HasRows(d, key) == key \in DOMAIN d /\ ~empty(d[key])

\* d[key] = table
Put(d, key, table) == [k \in DOMAIN d \cup {key} |-> IF k = key THEN table ELSE d[k]]

\* sum(len(v) for v in d.values())
RECURSIVE SumLen(_, _)
SumLen(d, keys) ==
  IF keys = {} THEN 0
  ELSE LET k == CHOOSE x \in keys : TRUE IN Len(d[k]) + SumLen(d, keys \ {k})
TotalRecords(d) == SumLen(d, DOMAIN d)

\* visualization.py 23
generic_queries == <<"análisis de datos", "analysis", "resumen", "summary", "datos", "data">>

\* visualization.py 27-29
IsGenericQuery(query_lower) ==
  \E i \in 1..Len(generic_queries) :
    StartsWith(query_lower, generic_queries[i]) \/ query_lower = generic_queries[i]

\* the columns each table is searched in (visualization.py 39-48, 58-71, 81-86, 96-101)
searched_columns ==
  [accounts |-> {"username", "perspective", "themes"},
   videos |-> {"username", "desc", "url", "title"},
   words |-> {"word", "type_1"},
   subtitles |-> {"text", "username"}]

\* visualization.py 31-103: the matching rows of every searched table that has rows
DirectMatches(data, query_lower) ==
  [k \in {d \in DOMAIN searched_columns : HasRows(data, d)} |->
     Mask(data[k], searched_columns[k], query_lower)]

\* visualization.py 108-135: words matched but no video did: the videos of the
\* subtitles whose text contains the term
WordRelatedVideos(data, filtered_data, query_lower) ==
  IF /\ HasRows(filtered_data, "words")
     /\ ~HasRows(filtered_data, "videos")
     /\ HasRows(data, "subtitles")
     /\ "text" \in Columns(data["subtitles"])
  THEN LET matching_subtitles == Mask(data["subtitles"], {"text"}, query_lower)
       IN  IF ~empty(matching_subtitles) /\ "url" \in Columns(matching_subtitles)
           THEN LET subtitle_urls == Values(matching_subtitles, "url")
                IN  IF /\ HasRows(data, "videos")
                       /\ subtitle_urls # {}
                       /\ "url" \in Columns(data["videos"])
                    THEN LET word_related_videos == IsIn(data["videos"], "url", subtitle_urls)
                         IN  IF ~empty(word_related_videos)
                             THEN Put(Put(filtered_data, "videos", word_related_videos),
                                      "subtitles", matching_subtitles)
                             ELSE filtered_data
                    ELSE filtered_data
           ELSE filtered_data
  ELSE filtered_data

\* the videos of the matched accounts replace the videos matched so far
AccountRelatedVideos_Replaces(data, filtered_data) ==
  IF HasRows(filtered_data, "accounts") /\ HasRows(data, "videos")
  THEN Put(filtered_data, "videos",
           IsIn(data["videos"], "username", Values(filtered_data["accounts"], "username")))
  ELSE filtered_data

\* visualization.py 138-157: the videos of the matched accounts
AccountRelatedVideos(data, filtered_data) ==
  IF HasRows(filtered_data, "accounts")
  THEN LET filtered_usernames == Values(filtered_data["accounts"], "username")
       IN  IF /\ HasRows(data, "videos")
              /\ filtered_usernames # {}
              /\ "username" \in Columns(data["videos"])
           THEN LET related_videos == IsIn(data["videos"], "username", filtered_usernames)
                IN  IF HasRows(filtered_data, "videos")
                    THEN Put(filtered_data, "videos",
                             drop_duplicates(concat(filtered_data["videos"], related_videos)))
                    ELSE IF ~empty(related_videos)
                         THEN Put(filtered_data, "videos", related_videos)
                         ELSE filtered_data
           ELSE filtered_data
  ELSE filtered_data

\* the videos of the matched subtitles are not added
SubtitleRelatedVideos_Skipped(data, filtered_data) == filtered_data

\* visualization.py 160-180: the videos of the matched subtitles
SubtitleRelatedVideos(data, filtered_data) ==
  IF HasRows(filtered_data, "subtitles") /\ "url" \in Columns(filtered_data["subtitles"])
  THEN LET subtitle_urls == Values(filtered_data["subtitles"], "url")
       IN  IF /\ HasRows(data, "videos")
              /\ subtitle_urls # {}
              /\ "url" \in Columns(data["videos"])
           THEN LET subtitle_related_videos == IsIn(data["videos"], "url", subtitle_urls)
                IN  IF HasRows(filtered_data, "videos")
                    THEN Put(filtered_data, "videos",
                             drop_duplicates(concat(filtered_data["videos"],
                                                    subtitle_related_videos)))
                    ELSE IF ~empty(subtitle_related_videos)
                         THEN Put(filtered_data, "videos", subtitle_related_videos)
                         ELSE filtered_data
           ELSE filtered_data
  ELSE filtered_data

\* visualization.py 183-202: the subtitles of the matched accounts
AccountRelatedSubtitles(data, filtered_data) ==
  IF HasRows(filtered_data, "accounts")
  THEN LET filtered_usernames == Values(filtered_data["accounts"], "username")
       IN  IF /\ HasRows(data, "subtitles")
              /\ filtered_usernames # {}
              /\ "username" \in Columns(data["subtitles"])
           THEN LET related_subtitles ==
                      IsIn(data["subtitles"], "username", filtered_usernames)
                IN  IF HasRows(filtered_data, "subtitles")
                    THEN Put(filtered_data, "subtitles",
                             drop_duplicates(concat(filtered_data["subtitles"],
                                                    related_subtitles)))
                    ELSE IF ~empty(related_subtitles)
                         THEN Put(filtered_data, "subtitles", related_subtitles)
                         ELSE filtered_data
           ELSE filtered_data
  ELSE filtered_data

\* visualization.py 207-209: an empty table for each of the four tables left out
EnsureKeys(data, filtered_data) ==
  [k \in DOMAIN filtered_data \cup (DOMAIN searched_columns \cap DOMAIN data) |->
     IF k \in DOMAIN filtered_data THEN filtered_data[k] ELSE <<>>]

\* visualization.py 31-202: the direct matches and what the cross-dataset filtering
\* adds to them
CrossFiltered(data, query_lower) ==
  LET direct == DirectMatches(data, query_lower)
      by_words == WordRelatedVideos(data, direct, query_lower)
      by_accounts == AccountRelatedVideos(data, by_words)
      by_subtitles == SubtitleRelatedVideos(data, by_accounts)
  IN  AccountRelatedSubtitles(data, by_subtitles)

\* the filtered collection is returned although it has no record
OrOriginal_Never(data, filtered_data) == filtered_data

\* visualization.py 211-228: the original data if the filtered collection has no record
OrOriginal(data, filtered_data) ==
  IF TotalRecords(filtered_data) = 0 THEN data ELSE filtered_data

\* the function returns at line 202, before the keys are ensured and the records counted
filter_data_by_query_ReturnsEarly(data, query) ==
  IF query = "" \/ strip(query) = "" THEN data
  ELSE IF IsGenericQuery(strip(lower(query))) THEN data
  ELSE CrossFiltered(data, strip(lower(query)))

filter_data_by_query(data, query) ==
  IF query = "" \/ strip(query) = "" THEN data
  ELSE LET query_lower == strip(lower(query))
       IN  IF IsGenericQuery(query_lower) THEN data
           ELSE OrOriginal(data, EnsureKeys(data, CrossFiltered(data, query_lower)))

(***************************************************************************)
(* generate_visualization (visualization.py 253-351)                       *)
(***************************************************************************)
\* visualization.py 278
generic_terms ==
  <<"datos", "información", "análisis", "resumen", "gráfico", "visualización">>

\* visualization.py 280
HasGenericTerm(query_lower) ==
  \E i \in 1..Len(generic_terms) : Contains(query_lower, generic_terms[i])

\* visualization.py 275: a query of this length or shorter is never reported as not found
ShortQueryLength == 3

\* visualization.py 275: len(query.strip()) > 3
IsLongQuery(query) == Len(strip(query)) > ShortQueryLength

\* visualization.py 285-286: the text around the query, and the suggestion
NotFoundMessage ==
  <<ascii("No se encontraron datos relevantes para '"),
    ascii("' en el conjunto de datos disponible.")>>
NotFoundSuggestion ==
  ascii("Intenta con una palabra diferente o consulta términos más generales.")

\* visualization.py 282-288
NoDataFound(query) ==
  [type |-> "no_data",
   title |-> "Sin Datos Disponibles",
   message |-> NotFoundMessage[1] \o ascii(query) \o NotFoundMessage[2],
   suggestion |-> NotFoundSuggestion,
   filter_info |-> [filtered |-> FALSE]]

\* visualization.py 296-301: the alternatives of each re.search, in the order tried
viz_type_patterns ==
  << <<"time_series", {"tiempo", "temporal", "evolucion", "evolución", "tendencia"}>>,
     <<"comparison", {"comparar", "versus", "vs", "diferencia"}>>,
     <<"distribution", {"distribucion", "distribución", "histograma"}>>,
     <<"network", {"red", "conexion", "conexión", "relacion", "relación"}>>,
     <<"sentiment", {"sentimiento", "emocion", "emoción"}>> >>

\* visualization.py 295-301
InferVizType(query) ==
  LET found == {i \in 1..Len(viz_type_patterns) :
                  \E alt \in viz_type_patterns[i][2] : Contains(lower(query), alt)}
  IN  IF found = {} THEN "summary"
      ELSE viz_type_patterns[CHOOSE i \in found : \A j \in found : i <= j][1]

\* visualization.py 304-312 with the title each generator starts from
\* (355, 442, 496, 538, 597, 686, 773)
generators ==
  [time_series |-> ascii("Evolución Temporal de Videos"),
   comparison |-> "Comparativas",
   distribution |-> "Distribuciones",
   network |-> "Red de Usuarios y Conexiones",
   sentiment |-> ascii("Análisis de Sentimiento"),
   summary |-> "Resumen General de Datos",
   focused_chart |-> ascii("Gráfico Enfocado")]

ErrorTitlePrefix == ascii("Error al Generar Visualización (")

\* what a generator can come to: a chart, a result that reports an error, an exception
GeneratorOutcomes == {"chart", "error", "raise"}

\* what the call of the filter at line 261 can come to: its result, an exception
FilterOutcomes == {"returned", "raise"}

\* visualization.py 313-316: the generator's result (its charts are left out)
generator_func(viz_type, outcome) ==
  LET name == IF viz_type \in DOMAIN generators THEN viz_type ELSE "summary"
      result == [type |-> name, title |-> generators[name]]
  IN  IF outcome = "error" THEN result @@ [error |-> "Error interno"] ELSE result

\* visualization.py 320-339
FilterInfo(data, filtered_data, query) ==
  IF query # "" /\ strip(query) # ""
  THEN [query |-> ascii(query),
        original_records |-> TotalRecords(data),
        filtered_records |-> TotalRecords(filtered_data),
        filtered |-> TRUE]
  ELSE [filtered |-> FALSE]

\* visualization.py 346, 351
ErrorTitle(viz_type) == ErrorTitlePrefix \o viz_type \o ")"

\* visualization.py 332-346
Title(visualization_data, query, viz_type) ==
  IF "error" \in DOMAIN visualization_data
  THEN ErrorTitle(viz_type)
  ELSE IF query # "" /\ strip(query) # "" /\ ~StartsWith(visualization_data.title, "Error")
       THEN visualization_data.title \o " - Filtrado: '" \o ascii(query) \o "'"
       ELSE visualization_data.title

\* the exception of the generator leaves generate_visualization
ExceptionPayload_Uncaught(viz_type) == [exception |-> "Exception"]

\* visualization.py 349-351: the payload for an exception of the generator.  The text
\* of the exception that line 351 appends is left out.
ExceptionPayload(viz_type) ==
  [type |-> viz_type, title |-> ErrorTitle(viz_type), error |-> "Error interno del servidor: "]

\* the payload of generate_visualization with the filtered collection it was built
\* from and what the generator came to ("none" if it was not called); requested is
\* the viz_type argument (NONE for None).
VisualizationOf(data, query, requested, filtering, outcome) ==
  LET \* visualization.py 290-293: the original data if filtering fails
      filtered_data == IF filtering = "raise" THEN data
                       ELSE filter_data_by_query(data, query)
      not_found ==
        /\ filtering = "returned"
        /\ query # "" /\ strip(query) # ""
        /\ TotalRecords(filtered_data) = TotalRecords(data)
        /\ IsLongQuery(query)
        /\ ~HasGenericTerm(strip(lower(query)))
      viz_type == IF requested = NONE THEN InferVizType(query) ELSE requested[1]
      visualization_data == generator_func(viz_type, outcome)
  IN  [filtered_data |-> filtered_data,
       generator |-> IF not_found THEN "none" ELSE outcome,
       payload |->
         IF not_found THEN NoDataFound(query)
         ELSE IF outcome = "raise" THEN ExceptionPayload(viz_type)
              ELSE [k \in DOMAIN visualization_data \cup {"filter_info"} |->
                      IF k = "filter_info" THEN FilterInfo(data, filtered_data, query)
                      ELSE IF k = "title" THEN Title(visualization_data, query, viz_type)
                      ELSE visualization_data[k]]]

generate_visualization(data, query, requested, filtering, outcome) ==
  VisualizationOf(data, query, requested, filtering, outcome).payload

(***************************************************************************)
(* safe_float and safe_int (visualization.py 230-250).  A cell value is    *)
(* None, a str, an int, or a float: finite (the quotient num / den, den a  *)
(* power of ten), infinite or NaN.  A call returns a value or raises.      *)
(* The numeric strings of the modelled alphabet have no exponent and no    *)
(* underscore.                                                             *)
(***************************************************************************)
PyNone == [kind |-> "none"]
PyStr(text) == [kind |-> "str", text |-> text]
PyInt(n) == [kind |-> "int", n |-> n]
PyFloat(num, den) == [kind |-> "float", num |-> num, den |-> den]
Inf(sign) == [kind |-> "inf", sign |-> sign]
NaN == [kind |-> "nan"]

Returned(v) == [raised |-> "none", value |-> v]
Raised(exception) == [raised |-> exception]

\* Python: s.replace(c, '')
RECURSIVE Remove(_, _)
Remove(s, c) ==
  IF s = "" THEN ""
  ELSE (IF Head(s) = c THEN "" ELSE Head(s)) \o Remove(Tail(s), c)

\* the number that a string of digits denotes (0 for the empty string)
RECURSIVE DigitsValue(_)
DigitsValue(s) ==
  IF s = "" THEN 0
  ELSE 10 * DigitsValue(SubSeq(s, 1, Len(s) - 1))
       + ((CHOOSE i \in 1..Len(DigitChars) : Char(DigitChars, i) = Char(s, Len(s))) - 1)

RECURSIVE PowerOfTen(_)
PowerOfTen(k) == IF k = 0 THEN 1 ELSE 10 * PowerOfTen(k - 1)

\* the position of the first c in s, 0 if there is none
RECURSIVE Find(_, _, _)
Find(s, c, p) == IF p > Len(s) THEN 0 ELSE IF Char(s, p) = c THEN p ELSE Find(s, c, p + 1)

\* Python: float(text) for a str: surrounding whitespace is dropped; a sign, then inf,
\* infinity or nan in any case, or digits with at most one point and a digit on one
\* side of it; ValueError otherwise
ParseFloat(text) ==
  LET stripped == strip(text)
      signed == stripped # "" /\ Head(stripped) \in {"+", "-"}
      sign == IF signed /\ Head(stripped) = "-" THEN -1 ELSE 1
      body == IF signed THEN Tail(stripped) ELSE stripped
      point == Find(body, ".", 1)
      whole == IF point = 0 THEN body ELSE SubSeq(body, 1, point - 1)
      fraction == IF point = 0 THEN "" ELSE SubSeq(body, point + 1, Len(body))
  IN  IF lower(body) \in {"inf", "infinity"} THEN Returned(Inf(sign))
      ELSE IF lower(body) = "nan" THEN Returned(NaN)
      ELSE IF AllDigits(whole) /\ AllDigits(fraction) /\ whole \o fraction # ""
      THEN Returned(PyFloat(sign * DigitsValue(whole \o fraction), PowerOfTen(Len(fraction))))
      ELSE Raised("ValueError")

\* Python: float(value)
float(value) ==
  IF value.kind = "str" THEN ParseFloat(value.text)
  ELSE IF value.kind = "int" THEN Returned(PyFloat(value.n, 1))
  ELSE IF value.kind = "none" THEN Raised("TypeError")
  ELSE Returned(value)

\* Python: int(f) for a float: the value cut off towards zero; ValueError for NaN,
\* OverflowError for an infinity
int(f) ==
  IF f.kind = "nan" THEN Raised("ValueError")
  ELSE IF f.kind = "inf" THEN Raised("OverflowError")
  ELSE Returned(PyInt(IF f.num >= 0 THEN f.num \div f.den ELSE -((-f.num) \div f.den)))

\* pandas: pd.notna(value) for a scalar
notna(value) == value.kind \notin {"none", "nan"}

\* except (ValueError, TypeError): return default
ExceptValueOrTypeError(result, default) ==
  IF result.raised \in {"ValueError", "TypeError"} THEN Returned(default) ELSE result

\* visualization.py 230-238
safe_float(value, default) ==
  LET replaced == IF value.kind = "str" THEN PyStr(Remove(value.text, ",")) ELSE value
  IN  ExceptValueOrTypeError(IF notna(replaced) THEN float(replaced) ELSE Returned(default),
                             default)

\* visualization.py 240-250
safe_int(value, default) ==
  ExceptValueOrTypeError(
    IF notna(value)
    THEN (IF float(value).raised = "none" THEN int(float(value).value) ELSE float(value))
    ELSE Returned(default),
    default)

(***************************************************************************)
(* The chart builders of the summary (visualization.py 733-771).  A cell   *)
(* of a table is a Python value (PyStr, PyInt, PyNone); a builder comes to *)
(* Returned(Some(chart)), Returned(NONE) or Raised(exception).             *)
(***************************************************************************)
\* most_common(10), nlargest(10, ...), head(10)
TopN == 10

\* df[col]
Column(table, col) == [i \in 1..Len(table) |-> table[i][col]]

\* df.dropna(subset=[...])
dropna(table, subset) == SelectSeq(table, LAMBDA row : \A c \in subset : notna(row[c]))

\* .head(n)
head(seq, n) == SubSeq(seq, 1, Min(n, Len(seq)))

\* the values of seq, each once, in the order of their first appearance
RECURSIVE unique(_)
unique(seq) ==
  IF seq = <<>> THEN <<>>
  ELSE LET before == unique(SubSeq(seq, 1, Len(seq) - 1))
       IN  IF seq[Len(seq)] \in Range(before) THEN before ELSE Append(before, seq[Len(seq)])

Occurrences(seq, x) == Cardinality({i \in 1..Len(seq) : seq[i] = x})

\* a stable sort of entries with a value field, the largest value first
RECURSIVE InsertDescending(_, _)
InsertDescending(sorted, e) ==
  IF sorted = <<>> THEN <<e>>
  ELSE IF Head(sorted).value >= e.value
       THEN <<Head(sorted)>> \o InsertDescending(Tail(sorted), e)
       ELSE <<e>> \o sorted
RECURSIVE SortDescending(_)
SortDescending(entries) ==
  IF entries = <<>> THEN <<>>
  ELSE InsertDescending(SortDescending(SubSeq(entries, 1, Len(entries) - 1)),
                        entries[Len(entries)])

\* Series.value_counts() / Counter(...).most_common(): the count of each value, the
\* most frequent first, equal counts in the order of first appearance
value_counts(values) ==
  LET u == unique(values)
  IN  SortDescending([i \in 1..Len(u) |-> [name |-> u[i], value |-> Occurrences(values, u[i])]])

\* str.split(c)
RECURSIVE SplitOn(_, _)
SplitOn(s, c) ==
  LET p == Find(s, c, 1)
  IN  IF p = 0 THEN <<s>>
      ELSE <<SubSeq(s, 1, p - 1)>> \o SplitOn(SubSeq(s, p + 1, Len(s)), c)

\* the concatenation of the sequences of a sequence
RECURSIVE Flatten(_)
Flatten(seqs) == IF seqs = <<>> THEN <<>> ELSE Head(seqs) \o Flatten(Tail(seqs))

\* the chart descriptor of a builder
Chart(id, type, title, chart_data) ==
  [id |-> id, type |-> type, title |-> title, data |-> chart_data]

\* 'key' in data and not data[key].empty and the columns in data[key].columns
HasColumns(data, key, cols) == HasRows(data, key) /\ cols \subseteq Columns(data[key])

\* visualization.py 733-737
_add_perspective_pie(data) ==
  IF HasColumns(data, "accounts", {"perspective"})
  THEN LET df == dropna(data["accounts"], {"perspective"})
           counts == value_counts(Column(df, "perspective"))
       IN  IF ~empty(df)
           THEN Returned(Some(Chart("perspective_pie", "pie",
                  ascii("Distribución por Perspectiva"),
                  [i \in 1..Len(counts) |->
                     [name |-> counts[i].name.text, value |-> counts[i].value]])))
           ELSE Returned(NONE)
  ELSE Returned(NONE)

\* visualization.py 738-742
_add_themes_bar(data) ==
  IF HasColumns(data, "accounts", {"themes"})
  THEN LET cells == SelectSeq(Column(data["accounts"], "themes"), notna)
           parts == Flatten([i \in 1..Len(cells) |-> SplitOn(cells[i].text, ",")])
           stripped == [i \in 1..Len(parts) |-> strip(parts[i])]
           themes == SelectSeq(stripped, LAMBDA t : t # "")
       IN  IF themes # <<>>
           THEN Returned(Some(Chart("themes_bar", "bar", "Top 10 Temas",
                                    head(value_counts(themes), TopN))))
           ELSE Returned(NONE)
  ELSE Returned(NONE)

\* DataFrame.nlargest needs a numeric column: a column that holds a string has dtype
\* object
IsObjectColumn(table, col) == \E i \in 1..Len(table) : table[i][col].kind = "str"

\* visualization.py 743-747
_add_top_accounts_bar(data) ==
  IF HasColumns(data, "accounts", {"followers_num", "username"})
  THEN LET df == dropna(data["accounts"], {"username", "followers_num"})
           top == head(SortDescending([i \in 1..Len(df) |->
                         [row |-> df[i], value |-> df[i].followers_num.n]]), TopN)
       IN  IF ~empty(df)
           THEN IF IsObjectColumn(data["accounts"], "followers_num")
                THEN Raised("TypeError")
                ELSE Returned(Some(Chart("top_accounts_bar", "bar",
                       "Top 10 Cuentas (Seguidores)",
                       [i \in 1..Len(top) |->
                          [name |-> top[i].row.username.text,
                           value |-> safe_float(top[i].row.followers_num,
                                                PyFloat(0, 1)).value]])))
           ELSE Returned(NONE)
  ELSE Returned(NONE)

\* the number of days of a month
DaysIn(year, month) ==
  IF month = 2
  THEN (IF year % 4 = 0 /\ (year % 100 # 0 \/ year % 400 = 0) THEN 29 ELSE 28)
  ELSE IF month \in {4, 6, 9, 11} THEN 30 ELSE 31

\* a text of the form dddd-dd-dd that names a day
IsIsoDate(text) ==
  /\ Len(text) = 10
  /\ Char(text, 5) = "-" /\ Char(text, 8) = "-"
  /\ isdigit(SubSeq(text, 1, 4)) /\ isdigit(SubSeq(text, 6, 7)) /\ isdigit(SubSeq(text, 9, 10))
  /\ DigitsValue(SubSeq(text, 1, 4)) >= 1
  /\ DigitsValue(SubSeq(text, 6, 7)) \in 1..12
  /\ DigitsValue(SubSeq(text, 9, 10)) \in
       1..DaysIn(DigitsValue(SubSeq(text, 1, 4)), DigitsValue(SubSeq(text, 6, 7)))

\* pd.to_datetime(cell, errors='coerce') on the cells of the model (a date in ISO
\* form, a word, None): the date is kept, every other cell becomes NaT
to_datetime(cell) == IF cell.kind = "str" /\ IsIsoDate(cell.text) THEN cell ELSE PyNone

\* .dt.strftime('%Y-%m'), and its place in the order of the months
year_month(cell) == SubSeq(cell.text, 1, 7)
MonthNumber(ym) == 12 * DigitsValue(SubSeq(ym, 1, 4)) + DigitsValue(SubSeq(ym, 6, 7))

\* visualization.py 748-752
_add_timeline_line(data) ==
  IF HasColumns(data, "videos", {"date"})
  THEN LET dates == SelectSeq([i \in 1..Len(data["videos"]) |->
                                 to_datetime(data["videos"][i].date)], notna)
           months == [i \in 1..Len(dates) |-> year_month(dates[i])]
           u == unique(months)
           \* groupby('year_month').size() ... sort_values('year_month')
           sorted == SortDescending([i \in 1..Len(u) |->
                                       [name |-> u[i], value |-> -MonthNumber(u[i])]])
       IN  IF dates # <<>>
           THEN Returned(Some(Chart("timeline_line", "line", "Videos Publicados (Mensual)",
                  [i \in 1..Len(sorted) |->
                     [date |-> sorted[i].name,
                      value |-> safe_int(PyInt(Occurrences(months, sorted[i].name)),
                                         PyInt(0)).value.n]])))
           ELSE Returned(NONE)
  ELSE Returned(NONE)

\* visualization.py 753-757
_add_top_creators_bar(data) ==
  IF HasColumns(data, "videos", {"username"})
  THEN LET df == dropna(data["videos"], {"username"})
           counts == head(value_counts(Column(df, "username")), TopN)
       IN  IF ~empty(df)
           THEN Returned(Some(Chart("top_creators_bar", "bar", "Top 10 Creadores (Videos)",
                  [i \in 1..Len(counts) |->
                     [name |-> counts[i].name.text, value |-> counts[i].value]])))
           ELSE Returned(NONE)
  ELSE Returned(NONE)

\* pd.to_numeric(cell, errors='coerce') on the cells of the model (an int, a word,
\* None): the int is kept, every other cell becomes NaN
to_numeric(cell) == IF cell.kind = "int" THEN cell ELSE NaN

\* str(n) for an int
RECURSIVE NatStr(_)
NatStr(n) ==
  IF n < 10 THEN Char(DigitChars, n + 1)
  ELSE NatStr(n \div 10) \o Char(DigitChars, (n % 10) + 1)
IntStr(n) == IF n < 0 THEN "-" \o NatStr(-n) ELSE NatStr(n)

\* visualization.py 762-763: sentiment_map.get(x, f"Otro ({x})"); the column is int64
\* when no cell was coerced to NaN and float64 otherwise
SentimentName(n, is_float) ==
  IF n = -1 THEN "Negativo"
  ELSE IF n = 0 THEN "Neutral"
  ELSE IF n = 1 THEN "Positivo"
  ELSE "Otro (" \o IntStr(n) \o (IF is_float THEN ".0" ELSE "") \o ")"

\* visualization.py 758-766: df is the copy of the words table, which has rows, so
\* the chart is returned also when no sentiment is numeric (with data [])
_add_sentiment_pie(data) ==
  IF HasColumns(data, "words", {"sentimiento"})
  THEN LET numeric == [i \in 1..Len(data["words"]) |-> to_numeric(data["words"][i].sentimiento)]
           counts == value_counts(SelectSeq(numeric, notna))
           is_float == \E i \in 1..Len(numeric) : ~notna(numeric[i])
       IN  Returned(Some(Chart("sentiment_pie", "pie",
             ascii("Distribución Sentimiento (Palabras)"),
             [i \in 1..Len(counts) |->
                [name |-> SentimentName(counts[i].name.n, is_float),
                 value |-> counts[i].value]])))
  ELSE Returned(NONE)

\* visualization.py 767-771
_add_word_types_bar(data) ==
  IF HasColumns(data, "words", {"type_1"})
  THEN LET df == dropna(data["words"], {"type_1"})
           counts == head(value_counts(Column(df, "type_1")), TopN)
       IN  IF ~empty(df)
           THEN Returned(Some(Chart("word_types_bar", "bar",
                  "Top 10 Tipos de Palabra (Tipo 1)",
                  [i \in 1..Len(counts) |->
                     [name |-> counts[i].name.text, value |-> counts[i].value]])))
           ELSE Returned(NONE)
  ELSE Returned(NONE)

\* func(data) for the chart builder of that name
CallBuilder(func, data) ==
  CASE func = "_add_perspective_pie" -> _add_perspective_pie(data)
    [] func = "_add_themes_bar" -> _add_themes_bar(data)
    [] func = "_add_top_accounts_bar" -> _add_top_accounts_bar(data)
    [] func = "_add_timeline_line" -> _add_timeline_line(data)
    [] func = "_add_top_creators_bar" -> _add_top_creators_bar(data)
    [] func = "_add_sentiment_pie" -> _add_sentiment_pie(data)
    [] func = "_add_word_types_bar" -> _add_word_types_bar(data)

\* chart and chart.get('data')
HasChartData(built) ==
  built.raised = "none" /\ built.value # NONE /\ built.value[1].data # <<>>

\* len(data.get(key, pd.DataFrame()))
LenOrZero(data, key) == IF key \in DOMAIN data THEN Len(data[key]) ELSE 0

(***************************************************************************)
(* generate_summary_visualization (visualization.py 686-730)               *)
(***************************************************************************)
\* visualization.py 688
summary_chart_functions ==
  <<"_add_perspective_pie", "_add_themes_bar", "_add_top_accounts_bar", "_add_timeline_line",
    "_add_top_creators_bar", "_add_sentiment_pie", "_add_word_types_bar">>

\* the first exception of a builder ends the loop (it is caught at line 726)
RECURSIVE SummaryCharts_Aborts(_, _)
SummaryCharts_Aborts(data, i) ==
  IF i > Len(summary_chart_functions) THEN <<>>
  ELSE LET chart == CallBuilder(summary_chart_functions[i], data)
       IN  IF chart.raised # "none" THEN <<>>
           ELSE (IF HasChartData(chart) THEN chart.value ELSE <<>>)
                \o SummaryCharts_Aborts(data, i + 1)

\* visualization.py 703-709: an exception of a builder is logged and the loop goes on
RECURSIVE SummaryCharts(_, _)
SummaryCharts(data, i) ==
  IF i > Len(summary_chart_functions) THEN <<>>
  ELSE LET chart == CallBuilder(summary_chart_functions[i], data)
       IN  (IF HasChartData(chart) THEN chart.value ELSE <<>>) \o SummaryCharts(data, i + 1)

\* visualization.py 712-717
SummaryStats(data) ==
  [k \in {"Cuentas", "Videos", ascii("Palabras Léxico"), ascii("Con Subtítulos")} |->
     LenOrZero(data, CASE k = "Cuentas" -> "accounts"
                       [] k = "Videos" -> "videos"
                       [] k = ascii("Palabras Léxico") -> "words"
                       [] OTHER -> "subtitles")]

NoStats == [k \in {} |-> 0]

generate_summary_visualization(data, query) ==
  LET result == [type |-> "summary", title |-> "Resumen General de Datos",
                 charts |-> <<>>, stats |-> NoStats]
      total_records == LenOrZero(data, "accounts") + LenOrZero(data, "videos")
                       + LenOrZero(data, "words") + LenOrZero(data, "subtitles")
      charts == SummaryCharts(data, 1)
      stats == SummaryStats(data)
  IN  IF total_records = 0
      THEN result @@ [error |-> "No hay datos disponibles para generar un resumen."]
      ELSE IF charts = <<>> /\ \A k \in DOMAIN stats : stats[k] = 0
           THEN [result EXCEPT !.stats = stats]
                @@ [error |-> "No se pudo generar un resumen con los datos disponibles."]
           ELSE [result EXCEPT !.charts = charts, !.stats = stats]

(***************************************************************************)
(* generate_focused_chart (visualization.py 773-855)                       *)
(***************************************************************************)
\* visualization.py 790, 797, 804, 811: the keywords of a branch, its builder and the
\* head of its title
focused_branches ==
  << [words |-> {"palabra", "término", "vocabulario", "léxico"},
      func |-> "_add_word_types_bar", title |-> ascii("Análisis de Palabras - ")],
     [words |-> {"usuario", "creador", "cuenta", "perfil"},
      func |-> "_add_top_creators_bar", title |-> ascii("Análisis de Creadores - ")],
     [words |-> {"sentimiento", "opinión", "emocional"},
      func |-> "_add_sentiment_pie", title |-> ascii("Análisis de Sentimiento - ")],
     [words |-> {"perspectiva", "político", "política", "izquierda", "derecha"},
      func |-> "_add_perspective_pie", title |-> ascii("Análisis Político - ")] >>

\* visualization.py 820-826
focused_chart_functions ==
  <<"_add_top_accounts_bar", "_add_top_creators_bar", "_add_perspective_pie",
    "_add_sentiment_pie", "_add_word_types_bar">>

\* visualization.py 828-837: the first chart of the list with data, NONE if there is none
RECURSIVE FirstChart(_, _)
FirstChart(data, i) ==
  IF i > Len(focused_chart_functions) THEN NONE
  ELSE LET chart == CallBuilder(focused_chart_functions[i], data)
       IN  IF HasChartData(chart) THEN chart.value ELSE FirstChart(data, i + 1)

\* visualization.py 840-845
FocusedStats(data) ==
  [k \in {"Cuentas", "Videos", "Palabras", ascii("Subtítulos")} |->
     LenOrZero(data, CASE k = "Cuentas" -> "accounts"
                       [] k = "Videos" -> "videos"
                       [] k = "Palabras" -> "words"
                       [] OTHER -> "subtitles")]

\* visualization.py 786-852 once the chart is chosen: the stats, and the error when
\* there is no chart
FocusedResult(data, chart, title) ==
  LET result == [type |-> "focused_chart", title |-> title, chart |-> chart,
                 stats |-> FocusedStats(data)]
  IN  IF chart = NONE
      THEN result @@ [error |-> ascii("No se pudo generar un gráfico individual "
                                      \o "con los datos disponibles.")]
      ELSE result

generate_focused_chart(data, query) ==
  LET query_lower == lower(query)
      taken == {i \in 1..Len(focused_branches) :
                  \E word \in focused_branches[i].words : Contains(query_lower, word)}
  IN  IF taken # {}
      THEN LET branch == focused_branches[CHOOSE i \in taken : \A j \in taken : i <= j]
               chart == CallBuilder(branch.func, data)
           IN  IF chart.raised # "none"
               THEN \* visualization.py 851-853
                    [type |-> "focused_chart", title |-> ascii("Gráfico Enfocado"),
                     chart |-> NONE, stats |-> NoStats,
                     error |-> ascii("Error generando gráfico individual: ") \o chart.raised]
               ELSE IF chart.value # NONE
                    THEN FocusedResult(data, chart.value,
                                       branch.title \o chart.value[1].title)
                    ELSE FocusedResult(data, NONE, ascii("Gráfico Enfocado"))
      ELSE LET chart == FirstChart(data, 1)
           IN  IF chart # NONE
               THEN FocusedResult(data, chart, ascii("Gráfico Individual - ") \o chart[1].title)
               ELSE FocusedResult(data, NONE, ascii("Gráfico Enfocado"))

(***************************************************************************)
(* The frames the generators write to.  A frame is a DataFrame object: its *)
(* table, and the dataset of the caller's collection that is this very     *)
(* object (NONE for an object that the function made).                     *)
(***************************************************************************)
\* data[key]: the object of the caller
Take(data, key) == [table |-> data[key], source |-> Some(key)]

\* no copy is made: the name is bound to the object itself
copy_Alias(frame) == frame

\* DataFrame.copy(): a new object with the same table
copy(frame) == [table |-> frame.table, source |-> NONE]

\* df.dropna(subset=[...]): a new object
DropnaFrame(frame, subset) == [table |-> dropna(frame.table, subset), source |-> NONE]

\* visualization.py 517-519: pd.cut(views, bins=[0, 1000, 10000, 100000, 1000000, inf],
\* labels=..., right=False)
view_bin(views) ==
  IF views.kind # "int" \/ views.n < 0 THEN NaN
  ELSE IF views.n < 1000 THEN PyStr("<1K")
  ELSE IF views.n < 10000 THEN PyStr("1K-10K")
  ELSE IF views.n < 100000 THEN PyStr("10K-100K")
  ELSE IF views.n < 1000000 THEN PyStr("100K-1M")
  ELSE PyStr(">1M")

\* the conversions whose result is assigned to a column
Convert(conv, value) ==
  CASE conv = "to_datetime" -> to_datetime(value)
    [] conv = "to_numeric" -> to_numeric(value)
    [] conv = "year_month" -> PyStr(year_month(value))
    [] conv = "view_bin" -> view_bin(value)

\* df[col] = conv(df[from]): the object is changed in place
SetColumn(frame, col, from, conv) ==
  [frame EXCEPT !.table =
     [i \in 1..Len(frame.table) |->
        [c \in DOMAIN frame.table[i] \cup {col} |->
           IF c = col THEN Convert(conv, frame.table[i][from]) ELSE frame.table[i][c]]]]

\* the collection of the caller once the function has written to the frame
Store(data, frame) ==
  IF frame.source = NONE THEN data ELSE [data EXCEPT ![frame.source[1]] = frame.table]

\* visualization.py 750-751: the date column of the copy is converted, and the
\* months are added to the frame that dropna made of it
TimelineWrites(data) ==
  IF HasColumns(data, "videos", {"date"})
  THEN LET df == SetColumn(copy(Take(data, "videos")), "date", "date", "to_datetime")
           valid == DropnaFrame(df, {"date"})
       IN  Store(Store(data, df),
                 SetColumn(valid, "year_month", "date", "year_month"))
  ELSE data

\* visualization.py 760 (and 525): the sentiment column of the copy is converted
SentimentColumnWrites(data) ==
  IF HasColumns(data, "words", {"sentimiento"})
  THEN Store(data, SetColumn(copy(Take(data, "words")), "sentimiento", "sentimiento", "to_numeric"))
  ELSE data

\* the collection after func(data): the builders of lines 733-747, 753-757 and
\* 767-771 assign to no frame
BuilderWrites(func, data) ==
  IF func = "_add_timeline_line" THEN TimelineWrites(data)
  ELSE IF func = "_add_sentiment_pie" THEN SentimentColumnWrites(data)
  ELSE data

\* visualization.py 703-709: every builder of the summary is called in turn
RECURSIVE SummaryWrites(_, _)
SummaryWrites(data, i) ==
  IF i > Len(summary_chart_functions) THEN data
  ELSE SummaryWrites(BuilderWrites(summary_chart_functions[i], data), i + 1)

\* visualization.py 828-837: the builders of the list are called up to the first
\* chart with data
RECURSIVE FirstChartWrites(_, _)
FirstChartWrites(data, i) ==
  IF i > Len(focused_chart_functions) THEN data
  ELSE IF HasChartData(CallBuilder(focused_chart_functions[i], data))
       THEN BuilderWrites(focused_chart_functions[i], data)
       ELSE FirstChartWrites(BuilderWrites(focused_chart_functions[i], data), i + 1)

\* visualization.py 369-427 (a query without @user): the date column of the copy is
\* converted; the months and the views are assigned to the frame dropna made of it
TimeSeriesWrites(data) ==
  IF HasColumns(data, "videos", {"date"})
  THEN LET df == SetColumn(copy(Take(data, "videos")), "date", "date", "to_datetime")
           valid == DropnaFrame(df, {"date"})
           months == SetColumn(valid, "year_month", "date", "year_month")
       IN  IF empty(valid.table) THEN Store(data, df)
           ELSE IF "views" \in Columns(valid.table)
                THEN Store(Store(data, df),
                           SetColumn(months, "views", "views", "to_numeric"))
                ELSE Store(Store(data, df), months)
  ELSE data

\* visualization.py 499-512 read data['accounts']; 514-519 and 524-525 assign to the
\* copies of the videos and of the words
DistributionWrites(data) ==
  LET after_videos ==
        IF HasColumns(data, "videos", {"views"})
        THEN Store(data,
               SetColumn(SetColumn(copy(Take(data, "videos")), "views", "views", "to_numeric"),
                         "view_bin", "views", "view_bin"))
        ELSE data
  IN  SentimentColumnWrites(after_videos)

\* visualization.py 600-626: the sentiment column is assigned to the frame that
\* dropna made of the copy of the words; a missing column of a subset is a KeyError
SentimentAnalysisWrites(data) ==
  IF /\ HasRows(data, "subtitles") /\ HasColumns(data, "words", {"sentimiento"})
     /\ {"username", "subtitles"} \subseteq Columns(data["subtitles"])
     /\ "word" \in Columns(data["words"])
  THEN LET subtitles_df == DropnaFrame(copy(Take(data, "subtitles")), {"username", "subtitles"})
           words_df == DropnaFrame(copy(Take(data, "words")), {"word", "sentimiento"})
       IN  IF empty(subtitles_df.table) \/ empty(words_df.table) THEN data
           ELSE Store(data, SetColumn(words_df, "sentimiento", "sentimiento", "to_numeric"))
  ELSE data

\* visualization.py 457-458, 475-476: the copies of the accounts and of the videos
\* are read only
ComparisonWrites(data) ==
  LET after_accounts == IF HasRows(data, "accounts")
                        THEN Store(data, copy(Take(data, "accounts"))) ELSE data
  IN  IF HasColumns(after_accounts, "videos", {"views"})
      THEN Store(after_accounts, copy(Take(after_accounts, "videos")))
      ELSE after_accounts

\* visualization.py 543-544: accounts_df is data["accounts"] itself, and is read only
NetworkWrites(data) ==
  IF HasRows(data, "accounts") THEN Store(data, Take(data, "accounts")) ELSE data

\* the collection of the caller after generator_func(filtered_data, query) when
\* filtered_data is the collection itself
GeneratorWrites(viz_type, data, query) ==
  CASE viz_type = "time_series" -> TimeSeriesWrites(data)
    [] viz_type = "comparison" -> ComparisonWrites(data)
    [] viz_type = "distribution" -> DistributionWrites(data)
    [] viz_type = "network" -> NetworkWrites(data)
    [] viz_type = "sentiment" -> SentimentAnalysisWrites(data)
    [] viz_type = "focused_chart" ->
         LET taken == {i \in 1..Len(focused_branches) :
                         \E word \in focused_branches[i].words : Contains(lower(query), word)}
         IN  IF taken # {}
             THEN BuilderWrites(focused_branches[CHOOSE i \in taken :
                                                   \A j \in taken : i <= j].func, data)
             ELSE FirstChartWrites(data, 1)
    [] OTHER ->
         IF LenOrZero(data, "accounts") + LenOrZero(data, "videos")
            + LenOrZero(data, "words") + LenOrZero(data, "subtitles") = 0
         THEN data
         ELSE SummaryWrites(data, 1)

(***************************************************************************)
(* extract_key_terms_from_query (app.py 251-383)                           *)
(***************************************************************************)
\* app.py 290-296: the spanish_meaningless_words of the safety check
safety_meaningless_words ==
  {
    "o", "y", "de", "el", "en", "es", "ir", "la", "si", "un", "año", "con", "del", "dos",
    "día", "hay", "las", "los", "muy", "más", "por", "que", "ser", "sin", "son", "una",
    "uno", "años", "como", "dime", "días", "está", "hola", "para", "poco", "tres", "datos",
    "donde", "estar", "están", "haber", "hacer", "menos", "mucho", "nuevo", "sobre",
    "tener", "tiene", "viejo", "cuando", "grande", "tiempo", "gráfico", "palabra",
    "pequeño", "gráficos", "palabras", "relevantes", "información"
  }

\* app.py 305-324
word_patterns == <<
  Pat(<<"palabra">>, "no", "\"", 1),
  Pat(<<"palabra">>, "no", "'", 1),
  Pat(<<"palabra">>, "no", "alpha", 1),
  Pat(<<"término">>, "no", "\"", 1),
  Pat(<<"término">>, "no", "'", 1),
  Pat(<<"término">>, "no", "alpha", 1),
  Pat(<<"sobre", "la", "palabra">>, "no", "alpha", 1),
  Pat(<<"sobre">>, "no", "\"", 1),
  Pat(<<"sobre">>, "no", "'", 1),
  Pat(<<"sobre">>, "no", "alpha", 1),
  Pat(<<"de", "la", "palabra">>, "no", "alpha", 1),
  Pat(<<"de">>, "no", "\"", 1),
  Pat(<<"de">>, "no", "'", 1),
  Pat(<<"análisis", "de">>, "no", "alpha", 1),
  Pat(<<"datos", "de">>, "no", "alpha", 1),
  Pat(<<"información", "de">>, "no", "alpha", 1),
  Pat(<<"datos", "relevantes", "sobre", "la", "palabra">>, "no", "alpha", 1),
  Pat(<<"relevantes", "sobre", "la", "palabra">>, "no", "alpha", 1) >>

\* app.py 346-349
quoted_patterns == << Pat(<<>>, "no", "\"", 1), Pat(<<>>, "no", "'", 1) >>

\* the captures of the patterns of the list from the i-th on, in pattern order
RECURSIVE AllMatches(_, _, _)
AllMatches(pats, s, i) ==
  IF i > Len(pats) THEN <<>> ELSE findall(pats[i], s) \o AllMatches(pats, s, i + 1)

\* the regex class [a-zA-Z0-9_\.]
UsernameChars == "abcdefghijklmnopqrstuvwxyzABCDEFGHIJKLMNOPQRSTUVWXYZ0123456789_."

RECURSIVE UsernameRun(_, _)
UsernameRun(s, p) ==
  IF p <= Len(s) /\ Char(s, p) \in CharsOf(UsernameChars)
  THEN Char(s, p) \o UsernameRun(s, p + 1)
  ELSE ""

\* re.findall(r'@([a-zA-Z0-9_\.]+)', s)
RECURSIVE FindUsernames(_, _)
FindUsernames(s, p) ==
  IF p > Len(s) THEN <<>>
  ELSE IF Char(s, p) = "@" /\ UsernameRun(s, p + 1) # ""
       THEN <<UsernameRun(s, p + 1)>> \o FindUsernames(s, p + 1 + Len(UsernameRun(s, p + 1)))
       ELSE FindUsernames(s, p + 1)

\* app.py 357-366: the important_terms of extract_key_terms_from_query
key_important_terms ==
  {
    "revolución", "revolucion", "democracia", "justicia", "libertad", "igualdad",
    "política", "politica", "gobierno", "corrupción", "corrupcion", "protesta",
    "manifestación", "manifestacion", "derecho", "derechos", "social", "económico",
    "economico", "educación", "educacion", "salud", "trabajo", "empleo", "crisis",
    "reforma", "cambio", "progreso", "conservador", "liberal", "izquierda", "derecha",
    "centro", "feminismo", "machismo", "violencia", "paz", "guerra", "conflicto", "unión",
    "union", "diversidad", "inclusión", "inclusion", "presidente", "congreso", "senado",
    "diputado", "diputados", "senador", "senadores", "elección", "eleccion", "elecciones",
    "voto", "votos", "campaña", "campana", "candidato", "candidatos", "partido",
    "partidos", "oposición", "oposicion", "oficialismo", "coalición", "coalicion"
  }

\* list(set([w.strip() for w in words if w.strip()])): the order of the list is the
\* iteration order of a set of strings, so the result is kept as the set
Deduplicated(words) == {strip(words[i]) : i \in 1..Len(words)} \ {""}

\* app.py 288-299: the safety check on the word of the smart extraction
SafetyCheck(smart_extracted_word) ==
  IF smart_extracted_word # NONE /\ smart_extracted_word[1] # ""
     /\ lower(smart_extracted_word[1]) \notin safety_meaningless_words
  THEN smart_extracted_word
  ELSE <<>>

\* app.py 273-299: the word of the smart extraction, unless the safety check blocks it
SmartWords(query) == SafetyCheck(extract_word_with_ai_parsing(query))

\* app.py 332-338
DirectTerms(query_lower) ==
  (IF Contains(query_lower, "revolución") THEN <<"revolución">> ELSE <<>>)
  \o (IF Contains(query_lower, "democracia") THEN <<"democracia">> ELSE <<>>)

\* app.py 369-372: re.findall(r'\b([a-záéíóúñü]{4,})\b', query_lower), important ones
ImportantWords(query_lower) ==
  SelectSeq(FindWords(query_lower), LAMBDA w : Len(w) >= 4 /\ w \in key_important_terms)

extract_key_terms_from_query(query) ==
  LET query_lower == lower(query)
      target_words ==
        SmartWords(query)
        \o AllMatches(word_patterns, query_lower, 1)
        \o DirectTerms(query_lower)
        \o AllMatches(quoted_patterns, query, 1)
        \o ImportantWords(query_lower)
  IN  [target_words |-> Deduplicated(target_words),
       usernames |-> Deduplicated(FindUsernames(query, 1))]

(***************************************************************************)
(* analyze_query_for_visualization_type (app.py 385-516)                   *)
(***************************************************************************)
\* app.py 399-404
time_keywords ==
  <<
    "tiempo", "temporal", "evolución", "evoluciona", "cambio", "cambios", "tendencia",
    "tendencias", "histórico", "historia", "cronología", "desarrollo", "progreso", "antes",
    "después", "periodo", "fecha", "fechas", "año", "años", "mes", "meses", "día", "días",
    "durante", "a lo largo", "timeline", "serie temporal", "línea de tiempo"
  >>

\* app.py 407-411
comparison_keywords ==
  <<
    "comparar", "comparación", "comparativa", "versus", "vs", "diferencia", "diferencias",
    "contraste", "entre", "mejor", "peor", "mayor", "menor", "más", "menos", "ranking",
    "top", "clasificación", "competencia", "frente a", "contra"
  >>

\* app.py 414-419
sentiment_keywords ==
  <<
    "sentimiento", "sentimientos", "opinión", "opiniones", "percepción", "percepções",
    "positivo", "negativo", "neutral", "emocional", "emoción", "emociones", "satisfacción",
    "insatisfacción", "feliz", "triste", "enojado", "contento", "análisis de sentimiento",
    "polaridad", "actitud", "reacción", "reacciones"
  >>

\* app.py 422-427
summary_keywords ==
  <<
    "resumen", "resúmen", "general", "panorama", "overview", "visión general", "total",
    "totales", "estadísticas", "estadística", "números", "cifras", "datos generales",
    "información general", "cuántos", "cuántas", "cantidad", "distribución", "proporción",
    "porcentaje", "estadísticas generales", "gráficos"
  >>

\* app.py 430-433
individual_keywords ==
  <<
    "individual", "uno", "una", "gráfico", "chart", "simple", "específico", "enfocado",
    "solo", "solamente", "únicamente", "particular", "concreto", "puntual"
  >>

\* app.py 436-439
user_keywords ==
  <<
    "usuario", "usuarios", "creador", "creadores", "cuenta", "cuentas", "perfil",
    "perfiles", "@", "influencer", "influencers", "tiktoker", "tiktokers"
  >>

\* app.py 442-445
word_keywords ==
  <<
    "palabra", "palabras", "término", "términos", "vocabulario", "léxico", "expresión",
    "expresiones", "frase", "frases", "texto", "textos"
  >>

\* any(pattern in query_lower for pattern in [...])
ContainsAny(query_lower, phrases) == \E p \in phrases : Contains(query_lower, p)

\* app.py 458-472: the scores, counted in tenths
TypeScores(query_lower, extracted) ==
  LET has_words == extracted.target_words # {}
      has_users == extracted.usernames # {}
      sentiment_hits == KeywordHits(sentiment_keywords, query_lower)
      time_score == KeywordHits(time_keywords, query_lower)
      comparison_score ==
        KeywordHits(comparison_keywords, query_lower) + (IF has_users THEN 2 ELSE 0)
      sentiment_score == sentiment_hits + (IF has_words /\ sentiment_hits > 0 THEN 3 ELSE 0)
      summary_score ==
        KeywordHits(summary_keywords, query_lower)
        + (IF has_words /\ sentiment_hits = 0 THEN 2 ELSE 0)
      individual_score == KeywordHits(individual_keywords, query_lower)
      user_score == KeywordHits(user_keywords, query_lower) + (IF has_users THEN 3 ELSE 0)
      word_score == KeywordHits(word_keywords, query_lower) + (IF has_words THEN 2 ELSE 0)
  IN  << <<"time_series", 10 * time_score>>,
         <<"comparison", 10 * (comparison_score + user_score)>>,
         <<"sentiment", 10 * sentiment_score + 3 * word_score>>,
         <<"summary", 10 * summary_score + 5 * word_score>>,
         <<"focused_chart", 10 * (individual_score * 2)>> >>

\* no pattern overrides the scores
OverrideType_None(query_lower) == NONE

\* app.py 469-476: the type that an explicit pattern of the query forces (NONE if no
\* pattern occurs)
OverrideType(query_lower) ==
  IF ContainsAny(query_lower,
                 {"evolución de", "cambio en", "a lo largo del tiempo", "serie temporal"})
  THEN Some("time_series")
  ELSE IF ContainsAny(query_lower,
                      {"comparar", "vs", "versus", "diferencia entre", "mejor que"})
  THEN Some("comparison")
  ELSE IF ContainsAny(query_lower, {"sentimiento", "análisis de sentimiento", "opinión"})
  THEN Some("sentiment")
  ELSE IF ContainsAny(query_lower,
                      {"uno individual", "gráfico individual", "chart individual", "uno solo"})
  THEN Some("focused_chart")
  ELSE NONE

\* max(scores.items(), key=...): the first item with the highest score
BestScore(scores) ==
  CHOOSE i \in 1..Len(scores) :
    /\ \A j \in 1..Len(scores) : scores[j][2] <= scores[i][2]
    /\ \A j \in 1..(i - 1) : scores[j][2] < scores[i][2]

\* the best type is taken whatever its score
ScoredType_NoThreshold(scores) == scores[BestScore(scores)][1]

\* app.py 477-494: the type with the highest score, or summary if that score is low
ScoredType(scores) ==
  IF scores[BestScore(scores)][2] = 0 \/ scores[BestScore(scores)][2] < 20 THEN "summary"
  ELSE scores[BestScore(scores)][1]

\* app.py 447-494
SuggestedType(query_lower, extracted) ==
  IF OverrideType(query_lower) # NONE THEN OverrideType(query_lower)[1]
  ELSE ScoredType(TypeScores(query_lower, extracted))

\* the suggestion is returned although the caller requested a type
ResolvedType_Suggested(query, requested_type, extracted) ==
  SuggestedType(lower(query), extracted)

\* app.py 390-393 and 447-494: the requested type if there is one, the suggested type
\* otherwise
ResolvedType(query, requested_type, extracted) ==
  IF requested_type # NONE /\ requested_type[1] # "" THEN requested_type[1]
  ELSE SuggestedType(lower(query), extracted)

\* app.py 392 and 497-514: the smart queries the extracted terms allow (NONE for
\* None).  target_words[0] and usernames[0] are the first element of a list made from
\* a set of strings, which can be any of its elements.
SmartQueries(query, has_type, extracted, fallback_word) ==
  IF extracted.target_words # {} THEN {Some(w) : w \in extracted.target_words}
  ELSE IF has_type THEN {Some(query)}
  ELSE IF extracted.usernames # {} THEN {Some(u) : u \in extracted.usernames}
  ELSE IF fallback_word # NONE /\ fallback_word[1] # "" THEN {fallback_word}
  ELSE {NONE}

\* the results for the extracted terms
AnalysesOf(query, requested_type, extracted) ==
  LET has_type == requested_type # NONE /\ requested_type[1] # ""
  IN  {[viz_type |-> ResolvedType(query, requested_type, extracted),
        extracted |-> extracted,
        smart_query |-> s] :
         s \in SmartQueries(query, has_type, extracted,
                            extract_word_with_regex_fallback(query))}

\* the results analyze_query_for_visualization_type can return: the suggested type, the
\* extracted terms and the smart query
analyze_query_for_visualization_type(query, requested_type) ==
  AnalysesOf(query, requested_type, extract_key_terms_from_query(query))

(***************************************************************************)
(* Requests and loaded data                                                *)
(***************************************************************************)
\* words joined by single spaces
RECURSIVE Join(_)
Join(ws) == IF Len(ws) = 0 THEN ""
            ELSE IF Len(ws) = 1 THEN ws[1]
            ELSE ws[1] \o " " \o Join(Tail(ws))

SeqsUpTo(S, n) == UNION {[1..k -> S] : k \in 1..n}

\* the queries of the term extractor: up to MaxQueryLen words of ExtractVocab
MaxQueryLen == 3

ExtractVocab ==
  {"revolución", "Revolución", "corrupcion", "paz", "chile", "oye",
   "sobre", "palabra", "datos", "hola", "la", "de"}

ExampleQueries ==
  {"dime sobre la revolución en chile", "de la el que", "datos sobre la palabra democracia",
   "oye qué tal", "hablame de Corrupcion", ""}

ExtractQueries == {Join(ws) : ws \in SeqsUpTo(ExtractVocab, MaxQueryLen)} \cup ExampleQueries

\* the queries of the relevance scorer: up to MaxScoreWords words of ScoreVocab
MaxScoreWords == 2

ScoreVocab == {"videos", "palabra", "cuenta", "Sentimiento", "hola"}

ScoreQueries == {Join(ws) : ws \in SeqsUpTo(ScoreVocab, MaxScoreWords)} \cup ExampleQueries

\* the terms handed to the filter and to generate_visualization
FilterQueries ==
  {"paz", "juan", "Democracia", "ley", "red", "valor", "corrupcion", "izquierda",
   "revolución", "datos", "datos abiertos", "resumen de paz", "información", "", "  "}

\* the queries of /chat: up to MaxChatWords words of ChatVocab
MaxChatWords == 2

ChatVocab == {"datos", "sobre", "la", "palabra", "democracia", "oye", "paz", "@juan", "tiempo"}

ChatQueries == {Join(ws) : ws \in SeqsUpTo(ChatVocab, MaxChatWords)} \cup ExampleQueries

\* the queries of the query analysis: up to MaxAnalyzeWords phrases of AnalyzeVocab
MaxAnalyzeWords == 2

AnalyzeVocab ==
  {"evolución de", "Cambio en", "vs", "sentimiento", "opiniones", "positivo", "uno",
   "tiempo", "fechas", "@juan"}

AnalyzeQueries == {Join(ws) : ws \in SeqsUpTo(AnalyzeVocab, MaxAnalyzeWords)} \cup ExampleQueries

\* the visualization types a request asks for (None, or a type)
RequestedTypes == {NONE, Some("summary"), Some("time_series")}

\* the rows the tables of the loaded collection are drawn from; the last two videos
\* are the same row twice
AccountRows == <<
  [username |-> "juan", perspective |-> "izquierda", themes |-> "paz"],
  [username |-> "ana", perspective |-> "derecha", themes |-> "familia"] >>
VideoRows == <<
  [username |-> "juan", title |-> "baile", url |-> "u1"],
  [username |-> "ana", title |-> "la paz", url |-> "u2"],
  [username |-> "leo", title |-> "hola", url |-> "u3"],
  [username |-> "leo", title |-> "hola", url |-> "u3"] >>
WordRows == <<
  [word |-> "paz", type_1 |-> "valor"],
  [word |-> "democracia", type_1 |-> "valor"] >>
SubtitleRows == <<
  [text |-> "Viva la Democracia", username |-> "juan", url |-> "u1"],
  [text |-> "paz y amor", username |-> "leo", url |-> "u3"],
  [text |-> "hola datos abiertos", username |-> "ana", url |-> "u2"],
  [text |-> "hola", username |-> "pazos", url |-> "u1"] >>
DateRows == <<
  [date |-> "2024"] >>

DatasetNames == {"accounts", "videos", "words", "subtitles", "dates"}

\* the datasets load_all_data loads (data_loader.py 28, 44, 62, 79)
LoadedNames == {"accounts", "videos", "dates", "subtitles"}

RowUniverse ==
  [accounts |-> AccountRows, videos |-> VideoRows, words |-> WordRows,
   subtitles |-> SubtitleRows, dates |-> DateRows]

\* the rows of U at the positions I, in the order of U
RECURSIVE Pick(_, _, _)
Pick(U, I, i) ==
  IF i > Len(U) THEN <<>>
  ELSE (IF i \in I THEN <<U[i]>> ELSE <<>>) \o Pick(U, I, i + 1)

\* the collections in which every dataset is absent, empty or whole
CoarseCollections ==
  UNION {[present -> {"empty", "full"}] : present \in SUBSET DatasetNames}
CoarseData(shape) ==
  [k \in DOMAIN shape |-> IF shape[k] = "full" THEN RowUniverse[k] ELSE <<>>]

\* the tables of at most MaxRows rows of a dataset
MaxRows == 2

Tables(k) ==
  {Pick(RowUniverse[k], I, 1) :
     I \in {J \in SUBSET (1..Len(RowUniverse[k])) : Cardinality(J) <= MaxRows}}

\* a dataset of the collection: absent (NONE) or one of these tables
TableChoices(k) == {NONE} \cup {Some(t) : t \in Tables(k)}

\* the collection of the datasets that are present
Collection(choice) ==
  [k \in {d \in DOMAIN choice : choice[d] # NONE} |-> choice[k][1]]

\* what load_all_data leaves in app_state["data"]: nothing, or the four datasets,
\* each empty or with rows (all of them, the two of the clean output directory, none)
LoadOutcomes == {LoadedNames, {"videos", "dates"}, {}}
LoadedCollections ==
  {[k \in {} |-> <<>>]} \cup
  {[k \in LoadedNames |-> IF k \in full THEN RowUniverse[k] ELSE <<>>] :
     full \in LoadOutcomes}

VARIABLES
  pc,          \* the stage of the computation
  query,       \* the query string of the request (transliterated)
  viz_type,    \* the visualization type of the request, NONE for None
  want_viz,    \* the generate_visualization flag of the request
  data,        \* app_state["data"]: the loaded dataset collection
  extraction,  \* the result of extract_word_with_regex_fallback: [word, step]
  relevance,   \* the result of determine_relevant_datasets
  filtered,    \* the result of filter_data_by_query
  analysis,    \* the result of analyze_query_for_visualization_type
  response,    \* the payload of generate_visualization or the response of /chat
  calls,       \* the functions of visualization.py that were called
  refiltered,  \* the result of filter_data_by_query on its own result
  outcomes,    \* what the filter and the chart generator came to in this call
  cell,        \* the cell value and the default handed to safe_float or safe_int
  converted    \* what safe_float or safe_int came to

vars ==
  <<pc, query, viz_type, want_viz, data, extraction, relevance, filtered, analysis,
    response, calls, refiltered, outcomes, cell, converted>>

NoExtraction == [word |-> NONE, step |-> 0]
NoData == [k \in {} |-> <<>>]
NoRelevance == [k \in {} |-> 0]
NoAnalysis == [viz_type |-> NONE, target_words |-> {}, usernames |-> {}, smart_query |-> NONE]
NoResponse == [status |-> 0]
NoOutcome == [filter |-> "none", generator |-> "none"]
NoCell == [func |-> "none"]
NoConversion == [raised |-> "none"]

\* nothing has been computed yet
Idle ==
  /\ pc = "call"
  /\ extraction = NoExtraction
  /\ relevance = NoRelevance
  /\ filtered = NoData
  /\ analysis = NoAnalysis
  /\ response = NoResponse
  /\ calls = {}
  /\ refiltered = NoData
  /\ outcomes = NoOutcome
  /\ converted = NoConversion

(***************************************************************************)
(* The term extractor on its own                                           *)
(***************************************************************************)
InitExtract ==
  /\ Idle
  /\ cell = NoCell
  /\ query \in {ascii(q) : q \in ExtractQueries}
  /\ viz_type = NONE
  /\ want_viz = FALSE
  /\ data = NoData

DoExtract ==
  /\ pc = "call"
  /\ extraction' = LET r == ExtractWithStep(unicode(query))
                    IN  [word |-> asciiOpt(r.word), step |-> r.step]
  /\ pc' = "extracted"
  /\ UNCHANGED <<query, viz_type, want_viz, data, relevance, filtered, analysis, response,
                 calls>>
  /\ UNCHANGED <<refiltered, outcomes, cell, converted>>

NextExtract == DoExtract

SpecExtract == InitExtract /\ [][NextExtract]_vars

(***************************************************************************)
(* The relevance scorer on its own                                         *)
(***************************************************************************)
InitScore ==
  /\ Idle
  /\ cell = NoCell
  /\ query \in {ascii(q) : q \in ScoreQueries}
  /\ viz_type = NONE
  /\ want_viz = FALSE
  /\ \E shape \in CoarseCollections : data = CoarseData(shape)

DoScore ==
  /\ pc = "call"
  /\ relevance' = determine_relevant_datasets(unicode(query), data)
  /\ pc' = "scored"
  /\ UNCHANGED <<query, viz_type, want_viz, data, extraction, filtered, analysis, response,
                 calls>>
  /\ UNCHANGED <<refiltered, outcomes, cell, converted>>

NextScore == DoScore

SpecScore == InitScore /\ [][NextScore]_vars

(***************************************************************************)
(* The filter on its own                                                   *)
(***************************************************************************)
InitFilter ==
  /\ Idle
  /\ cell = NoCell
  /\ query \in {ascii(q) : q \in FilterQueries}
  /\ viz_type = NONE
  /\ want_viz = FALSE
  /\ \E a \in TableChoices("accounts"), v \in TableChoices("videos"),
        w \in TableChoices("words"), s \in TableChoices("subtitles"),
        d \in {NONE, Some(DateRows)} :
       data = Collection([accounts |-> a, videos |-> v, words |-> w, subtitles |-> s,
                          dates |-> d])

DoFilter ==
  /\ pc = "call"
  /\ filtered' = filter_data_by_query(data, unicode(query))
  /\ calls' = {"filter_data_by_query"}
  /\ pc' = "filtered"
  /\ UNCHANGED <<query, viz_type, want_viz, data, extraction, relevance, analysis, response>>
  /\ UNCHANGED <<refiltered, outcomes, cell, converted>>

\* the result is filtered again with the same term
DoRefilter ==
  /\ pc = "filtered"
  /\ refiltered' = filter_data_by_query(filtered, unicode(query))
  /\ pc' = "refiltered"
  /\ UNCHANGED <<query, viz_type, want_viz, data, extraction, relevance, filtered, analysis,
                 response, calls>>
  /\ UNCHANGED <<outcomes, cell, converted>>

NextFilter == DoFilter \/ DoRefilter

SpecFilter == InitFilter /\ [][NextFilter]_vars

(***************************************************************************)
(* generate_visualization on its own                                       *)
(***************************************************************************)
InitVisualization ==
  /\ Idle
  /\ cell = NoCell
  /\ query \in {ascii(q) : q \in FilterQueries}
  /\ viz_type \in RequestedTypes
  /\ want_viz = TRUE
  /\ \E shape \in CoarseCollections : data = CoarseData(shape)

DoVisualization ==
  /\ pc = "call"
  /\ \E filtering \in FilterOutcomes, outcome \in GeneratorOutcomes :
       \E v \in {VisualizationOf(data, unicode(query), viz_type, filtering, outcome)} :
         /\ filtered' = v.filtered_data
         /\ response' = v.payload
         /\ outcomes' = [filter |-> filtering, generator |-> v.generator]
  /\ calls' = {"generate_visualization", "filter_data_by_query"}
  /\ pc' = "visualized"
  /\ UNCHANGED <<query, viz_type, want_viz, data, extraction, relevance, analysis>>
  /\ UNCHANGED <<refiltered, cell, converted>>

NextVisualization == DoVisualization

SpecVisualization == InitVisualization /\ [][NextVisualization]_vars

(***************************************************************************)
(* POST /chat (app.py 828-1057)                                            *)
(***************************************************************************)
\* app.py 1024-1025: the text around the query, and the suggestion
NoTermsMessage ==
  <<ascii("No se encontraron términos específicos para filtrar en la consulta '"),
    ascii("'.")>>
NoTermsSuggestion ==
  ascii("Intenta usar palabras más específicas como nombres de conceptos "
        \o "políticos o sociales.")

\* app.py 1021-1027
NoTermsFound(q) ==
  [type |-> "no_data",
   title |-> "Sin Datos Disponibles",
   message |-> NoTermsMessage[1] \o ascii(q) \o NoTermsMessage[2],
   suggestion |-> NoTermsSuggestion,
   filter_info |-> [filtered |-> FALSE]]

\* app.py 1038-1044: the response that carries the payload or its error
ChatResponse(visualization_data) ==
  IF "error" \in DOMAIN visualization_data
  THEN [status |-> 200, visualization |-> NONE,
        visualization_error |-> Some(visualization_data.error)]
  ELSE [status |-> 200, visualization |-> Some(visualization_data),
        visualization_error |-> NONE]

\* the analysis as it is kept in the state
StoredAnalysis(a) ==
  [viz_type |-> Some(a.viz_type),
   target_words |-> {ascii(w) : w \in a.extracted.target_words},
   usernames |-> {ascii(u) : u \in a.extracted.usernames},
   smart_query |-> asciiOpt(a.smart_query)]

(***************************************************************************)
(* The numeric conversions on their own                                    *)
(***************************************************************************)
\* the cell values handed to the conversions
CellValues ==
  {PyNone, NaN, Inf(1), Inf(-1), PyInt(7), PyInt(-3), PyFloat(15, 10), PyFloat(-25, 10)}
  \cup {PyStr(t) : t \in {"", "abc", "1,234", "1,234.5", "10.0", " 42 ", "-7", "+3", "5.",
                        ".5", ".", "1.2.3", "-1.9", "inf", "-Infinity", "NaN"}}

\* the defaults of the callers
Defaults == {PyInt(0), PyFloat(0, 1), PyInt(-1), PyNone}

InitConvert ==
  /\ Idle
  /\ query = ""
  /\ viz_type = NONE
  /\ want_viz = FALSE
  /\ data = NoData
  /\ cell \in [func : {"safe_float", "safe_int"}, value : CellValues, default : Defaults]

\* visualization.py 230-238
DoSafeFloat ==
  /\ pc = "call"
  /\ cell.func = "safe_float"
  /\ converted' = safe_float(cell.value, cell.default)
  /\ pc' = "converted"
  /\ UNCHANGED <<query, viz_type, want_viz, data, extraction, relevance, filtered, analysis,
                 response, calls>>
  /\ UNCHANGED <<refiltered, outcomes, cell>>

\* visualization.py 240-250
DoSafeInt ==
  /\ pc = "call"
  /\ cell.func = "safe_int"
  /\ converted' = safe_int(cell.value, cell.default)
  /\ pc' = "converted"
  /\ UNCHANGED <<query, viz_type, want_viz, data, extraction, relevance, filtered, analysis,
                 response, calls>>
  /\ UNCHANGED <<refiltered, outcomes, cell>>

NextConvert == DoSafeFloat \/ DoSafeInt

SpecConvert == InitConvert /\ [][NextConvert]_vars

(***************************************************************************)
(* The chart generators on their own                                       *)
(***************************************************************************)
\* the rows of the tables handed to the chart generators
ChartRows ==
  [accounts |-> <<
     [username |-> PyStr("juan"), perspective |-> PyStr("izquierda"),
      themes |-> PyStr("paz, salud"), followers_num |-> PyInt(10)],
     [username |-> PyStr("ana"), perspective |-> PyNone,
      themes |-> PyStr(" , "), followers_num |-> PyInt(25)],
     [username |-> PyStr("leo"), perspective |-> PyStr("izquierda"),
      themes |-> PyNone, followers_num |-> PyStr("1.2K")] >>,
   videos |-> <<
     [username |-> PyStr("juan"), date |-> PyStr("2024-03-09"), views |-> PyInt(1500)],
     [username |-> PyNone, date |-> PyStr("pronto"), views |-> PyStr("mil")],
     [username |-> PyStr("ana"), date |-> PyStr("2024-01-31"), views |-> PyNone] >>,
   words |-> <<
     [word |-> PyStr("paz"), type_1 |-> PyStr("valor"), sentimiento |-> PyInt(1)],
     [word |-> PyStr("ley"), type_1 |-> PyNone, sentimiento |-> PyStr("alto")],
     [word |-> PyStr("red"), type_1 |-> PyStr("valor"), sentimiento |-> PyInt(2)] >>,
   subtitles |-> << [username |-> PyStr("juan"), subtitles |-> PyStr("paz y amor")] >>]

\* the columns a table may come without
MissingColumns ==
  [accounts |-> {{}, {"perspective", "followers_num"}},
   videos |-> {{}, {"date", "views"}},
   words |-> {{}, {"sentimiento"}, {"type_1"}},
   subtitles |-> {{}}]

\* the table without the columns cols
Without(table, cols) ==
  [i \in 1..Len(table) |-> [c \in DOMAIN table[i] \ cols |-> table[i][c]]]

\* the tables of at most MaxChartRows rows of a dataset
MaxChartRows == 2

ChartTables(k) ==
  {Without(Pick(ChartRows[k], I, 1), cols) :
     I \in {J \in SUBSET (1..Len(ChartRows[k])) : Cardinality(J) <= MaxChartRows},
     cols \in MissingColumns[k]}

\* a dataset of the collection: absent (NONE) or one of these tables
ChartChoices(k) == {NONE} \cup {Some(t) : t \in ChartTables(k)}

ChartCollections ==
  {Collection([accounts |-> a, videos |-> v, words |-> w, subtitles |-> s]) :
     a \in ChartChoices("accounts"), v \in ChartChoices("videos"),
     w \in ChartChoices("words"), s \in ChartChoices("subtitles")}

\* the queries of the focused chart; the other generators get "un grafico"
ChartQueries ==
  {"Palabras clave", "las cuentas", "sentimiento", "política de izquierda",
   "un grafico"}

\* the generators that are modelled by what they write
WritingGenerators == {"time_series", "comparison", "distribution", "network", "sentiment"}

InitCharts ==
  /\ Idle
  /\ cell = NoCell
  /\ \/ viz_type = Some("focused_chart") /\ query \in {ascii(q) : q \in ChartQueries}
     \/ /\ viz_type \in {Some(t) : t \in WritingGenerators \cup {"summary"}}
        /\ query = "un grafico"
  /\ want_viz = TRUE
  /\ data \in ChartCollections

\* visualization.py 310: generate_summary_visualization(filtered_data, query)
DoSummary ==
  /\ pc = "call"
  /\ viz_type = Some("summary")
  /\ response' = generate_summary_visualization(data, unicode(query))
  /\ data' = GeneratorWrites("summary", data, unicode(query))
  /\ calls' = {"generate_summary_visualization"}
  /\ pc' = "charted"
  /\ UNCHANGED <<query, viz_type, want_viz, extraction, relevance, filtered, analysis>>
  /\ UNCHANGED <<refiltered, outcomes, cell, converted>>

\* visualization.py 311: generate_focused_chart(filtered_data, query)
DoFocusedChart ==
  /\ pc = "call"
  /\ viz_type = Some("focused_chart")
  /\ response' = generate_focused_chart(data, unicode(query))
  /\ data' = GeneratorWrites("focused_chart", data, unicode(query))
  /\ calls' = {"generate_focused_chart"}
  /\ pc' = "charted"
  /\ UNCHANGED <<query, viz_type, want_viz, extraction, relevance, filtered, analysis>>
  /\ UNCHANGED <<refiltered, outcomes, cell, converted>>

\* visualization.py 305-309: the other generators: what they return is left to
\* generator_func, what they write to the frames is followed
DoGenerator ==
  /\ pc = "call"
  /\ viz_type # NONE /\ viz_type[1] \in WritingGenerators
  /\ \E outcome \in {"chart", "error"} : response' = generator_func(viz_type[1], outcome)
  /\ data' = GeneratorWrites(viz_type[1], data, unicode(query))
  /\ calls' = {"generate_" \o viz_type[1]}
  /\ pc' = "charted"
  /\ UNCHANGED <<query, viz_type, want_viz, extraction, relevance, filtered, analysis>>
  /\ UNCHANGED <<refiltered, outcomes, cell, converted>>

NextCharts == DoSummary \/ DoFocusedChart \/ DoGenerator

SpecCharts == InitCharts /\ [][NextCharts]_vars

(***************************************************************************)
(* The query analysis on its own                                           *)
(***************************************************************************)
InitAnalyze ==
  /\ Idle
  /\ cell = NoCell
  /\ query \in {ascii(q) : q \in AnalyzeQueries}
  /\ viz_type \in RequestedTypes
  /\ want_viz = TRUE
  /\ data = NoData

\* app.py 385-516
DoAnalyze ==
  /\ pc = "call"
  /\ \E a \in analyze_query_for_visualization_type(unicode(query), viz_type) :
       analysis' = StoredAnalysis(a)
  /\ pc' = "analysed"
  /\ UNCHANGED <<query, viz_type, want_viz, data, extraction, relevance, filtered, response,
                 calls>>
  /\ UNCHANGED <<refiltered, outcomes, cell, converted>>

NextAnalyze == DoAnalyze

SpecAnalyze == InitAnalyze /\ [][NextAnalyze]_vars

(***************************************************************************)
(* The chat request                                                        *)
(***************************************************************************)
InitChat ==
  /\ Idle
  /\ cell = NoCell
  /\ query \in {ascii(q) : q \in ChatQueries}
  /\ viz_type \in RequestedTypes
  /\ want_viz \in BOOLEAN
  /\ data \in LoadedCollections

\* app.py 829-831: no data was loaded
ChatUnavailable ==
  /\ pc = "call"
  /\ DOMAIN data = {}
  /\ response' = [status |-> 503]
  /\ pc' = "done"
  /\ UNCHANGED <<query, viz_type, want_viz, data, extraction, relevance, filtered, analysis,
                 calls>>
  /\ UNCHANGED <<refiltered, outcomes, cell, converted>>

\* app.py 876-1014: the context is prepared and the query analysed, then the language
\* model fails.  (The smart agent search and the temporal analysis of lines 843-874
\* add text to the prompt only.)
ChatModelFails ==
  /\ pc = "call"
  /\ DOMAIN data # {}
  /\ relevance' = determine_relevant_datasets(unicode(query), data)
  /\ \/ /\ want_viz
        /\ \E a \in analyze_query_for_visualization_type(unicode(query), viz_type) :
             analysis' = StoredAnalysis(a)
     \/ /\ ~want_viz
        /\ analysis' = analysis
  /\ response' = [status |-> 503]
  /\ pc' = "done"
  /\ UNCHANGED <<query, viz_type, want_viz, data, extraction, filtered, calls>>
  /\ UNCHANGED <<refiltered, outcomes, cell, converted>>

\* app.py 876-1057 without a visualization
ChatAnswers ==
  /\ pc = "call"
  /\ DOMAIN data # {}
  /\ ~want_viz
  /\ relevance' = determine_relevant_datasets(unicode(query), data)
  /\ response' = [status |-> 200, visualization |-> NONE, visualization_error |-> NONE]
  /\ pc' = "done"
  /\ UNCHANGED <<query, viz_type, want_viz, data, extraction, filtered, analysis, calls>>
  /\ UNCHANGED <<refiltered, outcomes, cell, converted>>

\* app.py 876-1057 with a visualization
ChatVisualizes ==
  /\ pc = "call"
  /\ DOMAIN data # {}
  /\ want_viz
  /\ relevance' = determine_relevant_datasets(unicode(query), data)
  /\ \E a \in analyze_query_for_visualization_type(unicode(query), viz_type) :
       /\ analysis' = StoredAnalysis(a)
       /\ IF a.smart_query = NONE
          THEN /\ response' = [status |-> 200,
                               visualization |-> Some(NoTermsFound(unicode(query))),
                               visualization_error |-> NONE]
               /\ UNCHANGED <<filtered, calls, outcomes>>
          ELSE \E filtering \in FilterOutcomes, outcome \in GeneratorOutcomes :
                 \E v \in {VisualizationOf(data, a.smart_query[1], Some(a.viz_type),
                                            filtering, outcome)} :
                   /\ filtered' = v.filtered_data
                   /\ calls' = {"generate_visualization", "filter_data_by_query"}
                   /\ response' = ChatResponse(v.payload)
                   /\ outcomes' = [filter |-> filtering, generator |-> v.generator]
  /\ pc' = "done"
  /\ UNCHANGED <<query, viz_type, want_viz, data, extraction>>
  /\ UNCHANGED <<refiltered, cell, converted>>

NextChat == ChatUnavailable \/ ChatModelFails \/ ChatAnswers \/ ChatVisualizes

SpecChat == InitChat /\ [][NextChat]_vars

(***************************************************************************)
(* Term extraction: properties                                             *)
(***************************************************************************)
\* Python: s.split(): the whitespace-separated tokens of s
RECURSIVE SplitAcc(_, _)
SplitAcc(s, cur) ==
  IF s = "" THEN (IF cur = "" THEN <<>> ELSE <<cur>>)
  ELSE IF Head(s) = " "
       THEN (IF cur = "" THEN <<>> ELSE <<cur>>) \o SplitAcc(Tail(s), "")
       ELSE SplitAcc(Tail(s), cur \o Head(s))
split(s) == SplitAcc(s, "")

\* accent folding: the acute vowels and the diaeresis lose their mark
AccentedChars == "áéíóúü"
FoldedChars == "aeiouu"
FoldChar(c) ==
  IF Contains(AccentedChars, c)
  THEN Char(FoldedChars, CHOOSE i \in 1..Len(AccentedChars) : Char(AccentedChars, i) = c)
  ELSE c
RECURSIVE Fold(_)
Fold(s) == IF s = "" THEN "" ELSE FoldChar(Head(s)) \o Fold(Tail(s))

FoldedImportantTerms == {Fold(d) : d \in important_terms}

\* the words of the query that are curated domain terms up to case and accents
DomainTokens(q) == {w \in Range(FindWords(lower(q))) : Fold(w) \in FoldedImportantTerms}

\* C1: a query that contains a curated domain term, matched case-insensitively and
\* accent-insensitively, gets that term back from step 1 and never falls through to
\* the contextual patterns or the generic scan.
C1_DomainTermReturned ==
  (pc = "extracted" /\ DomainTokens(unicode(query)) # {})
    => /\ extraction.step = 1
       /\ extraction.word # NONE
       /\ unicode(extraction.word[1]) \in DomainTokens(unicode(query))

\* every whitespace-separated token of the query is a stopword
AllStopwords(q) == \A t \in Range(split(lower(q))) : t \in spanish_meaningless_words

\* C2: a query made only of stopwords/articles yields no term.
C2_StopwordsGiveNull ==
  (pc = "extracted" /\ AllStopwords(unicode(query))) => extraction.word = NONE

\* a stopword-only query on which the contextual patterns did capture words
C2_Witness ==
  /\ pc = "extracted"
  /\ AllStopwords(unicode(query))
  /\ Len(split(query)) >= 3
  /\ ContextualMatches(lower(unicode(query)), 1) # <<>>
  /\ extraction = [word |-> NONE, step |-> 4]

\* a word that is no stopword, is not purely numeric and is longer than 3
Qualifies(w) == w \notin spanish_meaningless_words /\ ~isdigit(w) /\ Len(w) > 3

\* w is the first word of seq that qualifies
IsFirstQualifying(w, seq) ==
  \E i \in 1..Len(seq) :
    /\ seq[i] = w
    /\ Qualifies(w)
    /\ \A j \in 1..(i - 1) : ~Qualifies(seq[j])

\* C26: a non-null result of extract_word_with_regex_fallback is a curated domain
\* term or a word that is no stopword, not purely numeric and longer than 3; in the
\* contextual step it is the first qualifying capture in pattern order, in the
\* generic step the first qualifying token in query order.
C26_ResultQualifies ==
  (pc = "extracted" /\ extraction.word # NONE) =>
    \E w \in {unicode(extraction.word[1])} :
      /\ w \in important_terms \/ Qualifies(w)
      /\ extraction.step = 2 =>
           IsFirstQualifying(w, ContextualMatches(lower(unicode(query)), 1))
      /\ extraction.step = 3 => IsFirstQualifying(w, FindWords(lower(unicode(query))))

\* 'palabra sobre chile': the first pattern captures the stopword 'sobre', the fifth
\* captures 'chile'
C26_Witness ==
  /\ pc = "extracted"
  /\ query = "palabra sobre chile"
  /\ ContextualMatches(lower(unicode(query)), 1)[1] = "sobre"
  /\ extraction = [word |-> Some("chile"), step |-> 2]

(***************************************************************************)
(* Chart generators: properties                                            *)
(***************************************************************************)
\* the charts of the summary in their fixed order, each with its source table and
\* the columns it reads
ChartSources ==
  << [id |-> "perspective_pie", table |-> "accounts", columns |-> {"perspective"}],
     [id |-> "themes_bar", table |-> "accounts", columns |-> {"themes"}],
     [id |-> "top_accounts_bar", table |-> "accounts", columns |-> {"username", "followers_num"}],
     [id |-> "timeline_line", table |-> "videos", columns |-> {"date"}],
     [id |-> "top_creators_bar", table |-> "videos", columns |-> {"username"}],
     [id |-> "sentiment_pie", table |-> "words", columns |-> {"sentimiento"}],
     [id |-> "word_types_bar", table |-> "words", columns |-> {"type_1"}] >>

\* the preference list of the focused chart
FocusedPreference ==
  <<"top_accounts_bar", "top_creators_bar", "perspective_pie", "sentiment_pie",
    "word_types_bar">>

\* the cell holds a value the chart can count: a theme that is not blank, a date, a
\* number, and for the other charts any value that is not missing
Usable(id, column, value) ==
  /\ value.kind # "none"
  /\ id = "themes_bar" => \E i \in 1..Len(value.text) : Char(value.text, i) \notin {" ", ","}
  /\ id = "timeline_line" => IsIsoDate(value.text)
  /\ id = "sentiment_pie" => value.kind = "int"

\* the source table and columns of the chart are present and hold a usable row
SourcePresent(src) ==
  /\ src.table \in DOMAIN data
  /\ \E i \in 1..Len(data[src.table]) :
       /\ src.columns \subseteq DOMAIN data[src.table][i]
       /\ \A c \in src.columns : Usable(src.id, c, data[src.table][i][c])

\* the builder of the chart raises on this collection: the top accounts need numbers
BuilderRaises(src) ==
  /\ src.id = "top_accounts_bar"
  /\ SourcePresent(src)
  /\ \E i \in 1..Len(data["accounts"]) : data["accounts"][i].followers_num.kind = "str"

\* the chart can be built from the collection
CanBuild(src) == SourcePresent(src) /\ ~BuilderRaises(src)

\* C21: the core never mutates a source dataset: across a call of a generator every
\* table of the collection keeps its rows, columns and values.
C21_SourcesNeverMutated == [][data' = data]_vars

\* the summary of a collection whose videos hold a date that is no date and whose
\* words hold a sentiment that is no number: the timeline and the sentiment pie
\* converted both columns (on their copies) and their charts are in the summary
C21_Witness ==
  /\ pc = "charted"
  /\ viz_type = Some("summary")
  /\ HasColumns(data, "videos", {"date"})
  /\ \E i \in 1..Len(data["videos"]) : data["videos"][i].date = PyStr("pronto")
  /\ HasColumns(data, "words", {"sentimiento"})
  /\ \E i \in 1..Len(data["words"]) : data["words"][i].sentimiento = PyStr("alto")
  /\ {"timeline_line", "sentiment_pie"} \subseteq
       {response.charts[i].id : i \in 1..Len(response.charts)}

\* C22: the focused chart falls back through the preference list until a chart has
\* data: whenever one of the five charts can be built, the payload carries a chart
\* with data and no error, whatever chart the keyword of the query selected.
C22_FocusedChartFallsBack ==
  ( /\ pc = "charted"
    /\ viz_type = Some("focused_chart")
    /\ \E i \in 1..Len(ChartSources) :
         ChartSources[i].id \in Range(FocusedPreference) /\ CanBuild(ChartSources[i]) ) =>
    /\ "error" \notin DOMAIN response
    /\ response.chart # NONE
    /\ response.chart[1].data # <<>>

\* C23: the charts of the summary are the charts that can be built from the
\* collection, in the fixed order; a chart whose source is missing or whose builder
\* raises is left out alone, and the summary reports no error.
C23_SummaryChartsIndependent ==
  (pc = "charted" /\ viz_type = Some("summary")) =>
    /\ [i \in 1..Len(response.charts) |-> response.charts[i].id]
         = [i \in 1..Len(SelectSeq(ChartSources, CanBuild)) |->
              SelectSeq(ChartSources, CanBuild)[i].id]
    /\ (\E i \in 1..Len(ChartSources) : CanBuild(ChartSources[i])) =>
         "error" \notin DOMAIN response

\* the followers of leo are a string and the top accounts raise; the words table is
\* missing: the two charts before and the two charts after are there
C23_Witness ==
  /\ pc = "charted"
  /\ viz_type = Some("summary")
  /\ BuilderRaises(ChartSources[3])
  /\ "words" \notin DOMAIN data
  /\ "error" \notin DOMAIN response
  /\ [i \in 1..Len(response.charts) |-> response.charts[i].id]
       = <<"perspective_pie", "themes_bar", "timeline_line", "top_creators_bar">>

(***************************************************************************)
(* Numeric conversions: properties                                         *)
(***************************************************************************)
\* C20: for every cell value (missing, NaN, non-numeric string, numeric string with
\* thousands commas, finite number, infinite number) safe_float and safe_int return
\* a number or the default of the caller, and never raise.
C20_ConversionsNeverRaise ==
  pc = "converted" =>
    /\ converted.raised = "none"
    /\ \/ converted.value = cell.default
       \/ converted.value.kind \in {"int", "float", "inf", "nan"}

(***************************************************************************)
(* Query analysis: properties                                              *)
(***************************************************************************)
\* C15: a visualization type requested by the caller is returned verbatim as the
\* intent, whatever keywords or override patterns the query contains.
C15_RequestedTypeVerbatim ==
  (pc = "analysed" /\ viz_type # NONE) => analysis.viz_type = viz_type

\* the query forces comparison and has sentiment keywords, the caller asked for summary
C15_Witness ==
  /\ pc = "analysed"
  /\ query = "vs sentimiento"
  /\ viz_type = Some("summary")
  /\ analysis.viz_type = Some("summary")

\* the closed enumeration of visualization intents
VisualizationIntents ==
  {"time_series", "comparison", "distribution", "sentiment", "summary", "focused_chart",
   "no_data"}

\* C16: the 'type' of every payload that generate_visualization produces is one of
\* time_series, comparison, distribution, sentiment, summary, focused_chart, no_data.
C16_ClosedEnumeration ==
  pc = "visualized" => response.type \in VisualizationIntents

\* the patterns that force time_series, and those that force comparison
TimeOverrides == {"evolución de", "cambio en", "a lo largo del tiempo", "serie temporal"}
ComparisonOverrides == {"comparar", "vs", "versus", "diferencia entre", "mejor que"}

\* the other override patterns of the analysis
OtherOverrides ==
  {"sentimiento", "análisis de sentimiento", "opinión", "uno individual",
   "gráfico individual", "chart individual", "uno solo"}

Occurs(phrases) == \E p \in phrases : Contains(lower(unicode(query)), p)

\* C17: with no requested type, a query containing a time pattern resolves to
\* time_series, and otherwise a query containing a comparison pattern resolves to
\* comparison, regardless of the scores.
C17_OverridesBeforeScores ==
  (pc = "analysed" /\ viz_type = NONE) =>
    /\ Occurs(TimeOverrides) => analysis.viz_type = Some("time_series")
    /\ (~Occurs(TimeOverrides) /\ Occurs(ComparisonOverrides)) =>
         analysis.viz_type = Some("comparison")

\* 'vs sentimiento' has one comparison keyword and a sentiment keyword with a target
\* word: the pattern 'vs' decides
C17_Witness ==
  /\ pc = "analysed"
  /\ viz_type = NONE
  /\ query = "vs sentimiento"
  /\ analysis.viz_type = Some("comparison")

\* the scores of the analysed query, in tenths
ScoresOfQuery ==
  TypeScores(lower(unicode(query)),
             [target_words |-> analysis.target_words, usernames |-> analysis.usernames])

\* the highest of the scores
Highest(scores) ==
  CHOOSE m \in {scores[i][2] : i \in 1..Len(scores)} :
    \A i \in 1..Len(scores) : scores[i][2] <= m

\* C18: with no requested type and no override pattern in the query, the intent is
\* summary if the highest of the five scores is below 2 (20 tenths), and otherwise a
\* category with the highest score.
C18_ThresholdThenHighest ==
  ( /\ pc = "analysed" /\ viz_type = NONE
    /\ ~Occurs(TimeOverrides) /\ ~Occurs(ComparisonOverrides) /\ ~Occurs(OtherOverrides) ) =>
    \E scores \in {ScoresOfQuery} :
      IF Highest(scores) < 20
      THEN analysis.viz_type = Some("summary")
      ELSE \E i \in 1..Len(scores) :
             /\ scores[i][2] = Highest(scores)
             /\ analysis.viz_type = Some(scores[i][1])

\* two sentiment keywords, no override pattern: the highest score decides
C18_Witness ==
  /\ pc = "analysed"
  /\ viz_type = NONE
  /\ query = "opiniones positivo"
  /\ Highest(ScoresOfQuery) >= 20
  /\ analysis.viz_type = Some("sentiment")

(***************************************************************************)
(* Key terms and /chat: properties                                         *)
(***************************************************************************)
\* the query whose analysis is asked for in the example
ExampleTermQuery == "datos sobre la palabra democracia"

\* C3: the smart_query that analyze_query_for_visualization_type takes from the
\* de-duplicated target_words is never an article or a stopword, and for
\* 'datos sobre la palabra democracia' it is 'democracia' whatever the order of the
\* de-duplicated list.
C3_SmartQueryIsNoStopword ==
  (pc = "done" /\ analysis.target_words # {}) =>
    /\ analysis.smart_query # NONE
    /\ unicode(analysis.smart_query[1]) \notin spanish_meaningless_words
    /\ query = ascii(ExampleTermQuery) => analysis.smart_query = Some("democracia")

\* neither the key terms, nor the usernames, nor the fallback extraction give a term
NoMeaningfulTerm(q) ==
  /\ extract_key_terms_from_query(q).target_words = {}
  /\ extract_key_terms_from_query(q).usernames = {}
  /\ extract_word_with_regex_fallback(q) = NONE

\* C4: when no meaningful term can be extracted from the query, /chat with a
\* visualization requested, with or without a requested type, answers with the no_data
\* payload and calls neither generate_visualization nor the filter: it never filters by
\* the raw query.
C4_NoTermShortCircuits ==
  (pc = "done" /\ want_viz /\ response.status = 200 /\ NoMeaningfulTerm(unicode(query))) =>
    /\ response.visualization = Some(NoTermsFound(unicode(query)))
    /\ calls = {}

(***************************************************************************)
(* Filtering and generate_visualization: properties                        *)
(***************************************************************************)
\* the term the filter searches for
Term(q) == strip(lower(q))

\* a non-blank term that is not generic and that no row of any searched table contains
SpecificUnmatched(d, q) ==
  /\ Term(q) # ""
  /\ ~IsGenericQuery(Term(q))
  /\ ~HasGenericTerm(Term(q))
  /\ \A k \in DOMAIN searched_columns \cap DOMAIN d :
       \A i \in 1..Len(d[k]) : ~RowMatches(d[k][i], searched_columns[k], Term(q))

\* C5: for a specific (non-generic) term that matches no row of any dataset,
\* generate_visualization returns the no_data payload with the 'term not found'
\* message, which is not the 'no term extracted' message, whatever the length of the
\* term.
C5_UnmatchedTermGivesNoData ==
  (pc = "visualized" /\ SpecificUnmatched(data, unicode(query))) =>
    /\ response = NoDataFound(unicode(query))
    /\ response.message # NoTermsFound(unicode(query)).message

\* the term is one of the recognized generic phrases
IsGenericPhrase(t) == \E i \in 1..Len(generic_queries) : t = generic_queries[i]

\* some row of a searched table of the collection contains the term
SomeRowMatches(d, t) ==
  \E k \in DOMAIN searched_columns \cap DOMAIN d :
    \E i \in 1..Len(d[k]) : RowMatches(d[k][i], searched_columns[k], t)

\* C11: for a blank term or a recognized generic phrase filter_data_by_query returns
\* the collection unchanged; a term that is no recognized generic phrase is filtered
\* even when it begins with a generic word: when it matches some row, the accounts and
\* the words of the result are matching rows only.
C11_OnlyGenericPassesThrough ==
  pc = "filtered" =>
    /\ (Term(unicode(query)) = "" \/ IsGenericPhrase(Term(unicode(query))))
         => filtered = data
    /\ ( /\ Term(unicode(query)) # ""
         /\ ~IsGenericPhrase(Term(unicode(query)))
         /\ SomeRowMatches(data, Term(unicode(query))) )
         => \A k \in {"accounts", "words"} \cap DOMAIN filtered :
              \A i \in 1..Len(filtered[k]) :
                RowMatches(filtered[k][i], searched_columns[k], Term(unicode(query)))

\* the rows of the table that match the term directly
Matching(table, k, t) ==
  {table[i] : i \in {j \in 1..Len(table) : RowMatches(table[j], searched_columns[k], t)}}

\* C12: for a term that is filtered, if no record is left after the per-dataset
\* filtering and the cross-propagation (no row of any table matches) the result of
\* filter_data_by_query is the original collection; if some record is left the result
\* is the filtered collection: it has records, its tables hold rows of the input
\* only, its accounts and words are exactly the matching rows, and every matching
\* video is in it.
C12_FallbackOnlyWithoutRecords ==
  (pc = "filtered" /\ Term(unicode(query)) # "" /\ ~IsGenericQuery(Term(unicode(query)))) =>
    IF ~SomeRowMatches(data, Term(unicode(query)))
    THEN filtered = data
    ELSE /\ TotalRecords(filtered) > 0
         /\ DOMAIN filtered \subseteq DOMAIN data
         /\ \A k \in DOMAIN filtered : Range(filtered[k]) \subseteq Range(data[k])
         /\ \A k \in {"accounts", "words"} \cap DOMAIN data :
              Range(filtered[k]) = Matching(data[k], k, Term(unicode(query)))
         /\ "videos" \in DOMAIN data =>
              Matching(data["videos"], "videos", Term(unicode(query)))
                \subseteq Range(filtered["videos"])

\* 'corrupcion' matches no row of a collection with rows: the result is the collection
C12_Witness ==
  /\ pc = "filtered"
  /\ query = "corrupcion"
  /\ {"accounts", "videos", "dates"} \subseteq DOMAIN data
  /\ Len(data["videos"]) = 2
  /\ Len(data["accounts"]) = 1
  /\ filtered = data

\* C13: filtering is idempotent on a term that matches no row: filtering the result of
\* filter_data_by_query again with the same term gives that result again.
C13_IdempotentWithoutMatch ==
  (pc = "refiltered" /\ ~SomeRowMatches(data, Term(unicode(query)))) =>
    refiltered = filtered

\* 'corrupcion' matches no row of a collection with rows, and was filtered twice
C13_Witness ==
  /\ pc = "refiltered"
  /\ query = "corrupcion"
  /\ ~SomeRowMatches(data, Term(unicode(query)))
  /\ {"accounts", "subtitles", "dates"} \subseteq DOMAIN data
  /\ Len(data["subtitles"]) = 2
  /\ refiltered = filtered
  /\ filtered = data

\* the four fields of the filter_info block
FilterInfoFields == {"query", "original_records", "filtered_records", "filtered"}

\* the filter changed the collection that the payload is built from
FilteringOccurred == Term(unicode(query)) # "" /\ filtered # data

C19_AlwaysAPayload ==
  pc = "visualized" =>
    /\ {"type", "title"} \subseteq DOMAIN response
    /\ outcomes.generator \in {"error", "raise"} => "error" \in DOMAIN response

\* the filter raised, then the generator raised
C19_Witness ==
  /\ pc = "visualized"
  /\ query = "paz"
  /\ "accounts" \in DOMAIN data
  /\ outcomes = [filter |-> "raise", generator |-> "raise"]
  /\ filtered = data
  /\ "error" \in DOMAIN response

\* the term is filtered (not blank, not taken for generic) and matches some row, so
\* that the result is not the unfiltered fallback
Narrowed ==
  /\ pc = "filtered"
  /\ Term(unicode(query)) # ""
  /\ ~IsGenericQuery(Term(unicode(query)))
  /\ SomeRowMatches(data, Term(unicode(query)))

\* the rows of data[k] that match the term directly ({} if the table is absent)
Direct(k) ==
  IF k \in DOMAIN data THEN Matching(data[k], k, Term(unicode(query))) ELSE {}

\* the rows of filtered[k] ({} if the table is absent)
Result(k) == IF k \in DOMAIN filtered THEN Range(filtered[k]) ELSE {}

\* the videos and subtitles matched before the account propagation of lines 137-157
\* and 182-202: the direct matches after the special case of lines 106-135
BeforeAccounts ==
  WordRelatedVideos(data, DirectMatches(data, Term(unicode(query))), Term(unicode(query)))

C27_DirectMatchesKept ==
  Narrowed => \A k \in DOMAIN searched_columns : Direct(k) \subseteq Result(k)

\* the usernames of the matched accounts, and the URLs of the matched subtitles
MatchedUsernames == {a.username : a \in Direct("accounts")}
MatchedUrls == {s.url : s \in Direct("subtitles")}

\* C28: soundness: whenever the result is not the unfiltered fallback, every row of
\* the result is a row of the input table of the same name that contains the term,
\* or a video or subtitle of a matched account, or a video with the URL of a matched
\* subtitle.
C28_OnlyMatchedOrRelated ==
  Narrowed =>
    \A k \in DOMAIN filtered :
      /\ k \in DOMAIN data
      /\ \A r \in Result(k) :
           /\ r \in Range(data[k])
           /\ \/ r \in Direct(k)
              \/ k \in {"videos", "subtitles"} /\ r.username \in MatchedUsernames
              \/ k = "videos" /\ r.url \in MatchedUrls

\* 'paz' matches a subtitle of leo only: the video of leo is there through its URL
C28_Witness ==
  /\ Narrowed
  /\ query = "paz"
  /\ Direct("videos") = {}
  /\ Direct("accounts") = {}
  /\ Direct("subtitles") = {SubtitleRows[2]}
  /\ Result("videos") = {VideoRows[3]}

C30_NoDataOnlyWithoutMatch ==
  ( /\ pc = "visualized"
    /\ Term(unicode(query)) # ""
    /\ ~IsGenericQuery(Term(unicode(query)))
    /\ SomeRowMatches(data, Term(unicode(query))) ) =>
    /\ response.type # "no_data"
    /\ "filter_info" \in DOMAIN response => response.filter_info.filtered

\* the number of keywords of dataset k that occur in the lower-cased query
HitsOf(k) == KeywordHits(dataset_keywords[k], lower(unicode(query)))

\* the datasets with rows of which a keyword occurs in the query
HitKeys == {k \in ScoredKeys(data) : HitsOf(k) > 0}

\* C25: every value of the mapping of determine_relevant_datasets is greater than 0
\* and at most 1; with a keyword hit, the mapping holds exactly the datasets with a
\* hit, each with min(hits / dictionary size, 1.0).
C25_ScoresInUnitInterval ==
  pc = "scored" =>
    /\ \A k \in DOMAIN relevance : 0 < relevance[k] /\ relevance[k] <= ScoreScale
    /\ HitKeys # {} =>
         /\ DOMAIN relevance = HitKeys
         /\ \A k \in HitKeys :
              IF HitsOf(k) >= Len(dataset_keywords[k])
              THEN relevance[k] = ScoreScale
              ELSE relevance[k] * Len(dataset_keywords[k]) = HitsOf(k) * ScoreScale

\* 'palabra Sentimiento': two keywords of words and one of subtitles occur; videos and
\* accounts score 0 and are dropped
C25_Witness ==
  /\ pc = "scored"
  /\ query = "palabra Sentimiento"
  /\ ScoredKeys(data) = DOMAIN dataset_keywords
  /\ HitsOf("words") = 2
  /\ DOMAIN relevance = {"words", "subtitles"}
  /\ relevance["words"] = (2 * ScoreScale) \div 18
  /\ relevance["subtitles"] = ScoreScale \div 18

\* C6: the result of filter_data_by_query has exactly the dataset keys of its input:
\* no key that the input lacks, and every key of the input, the keys other than
\* accounts, videos, words and subtitles included.
C6_KeySetPreserved ==
  pc = "filtered" => DOMAIN filtered = DOMAIN data

\* the number of times the row occurs in the table
Count(table, row) == Cardinality({i \in 1..Len(table) : table[i] = row})

\* the rows of the table that the kept table does not hold, a row that occurs several
\* times counted as often as it was left out
Dropped(table, kept) ==
  LET left(row) == Count(table, row) - Count(kept, row)
      rows == Range(table)
      RECURSIVE Sum(_)
      Sum(R) == IF R = {} THEN 0
                ELSE LET r == CHOOSE x \in R : TRUE
                     IN  (IF left(r) > 0 THEN left(r) ELSE 0) + Sum(R \ {r})
  IN  Sum(rows)

\* the rows of the collection that the filtered collection does not hold, summed over
\* the datasets of the collection (a dataset the result lacks holds none)
RECURSIVE ExcludedRows(_, _, _)
ExcludedRows(d, kept, keys) ==
  IF keys = {} THEN 0
  ELSE LET k == CHOOSE x \in keys : TRUE
       IN  Dropped(d[k], IF k \in DOMAIN kept THEN kept[k] ELSE <<>>)
           + ExcludedRows(d, kept, keys \ {k})

\* the payload carries the record counts of a filtered collection
HasRecordCounts(payload) ==
  /\ "filter_info" \in DOMAIN payload
  /\ "original_records" \in DOMAIN payload.filter_info

\* C7: for a non-blank query, original_records - filtered_records in the filter_info
\* of the payload of generate_visualization is the number of rows of the input
\* collection that the filter left out, summed over all the datasets of the input.
C7_FilterInfoRoundTrip ==
  (pc = "visualized" /\ HasRecordCounts(response)) =>
    /\ strip(query) # ""
    /\ response.filter_info.original_records - response.filter_info.filtered_records
         = ExcludedRows(data, filtered, DOMAIN data)

\* 'paz' on the whole collection: the videos of the matched account and of the matched
\* subtitles are joined to the matched videos, the row that occurs twice is kept once,
\* and the dates are left out
C7_Witness ==
  /\ pc = "visualized"
  /\ query = "paz"
  /\ DOMAIN data = DatasetNames
  /\ data["videos"] = VideoRows
  /\ HasRecordCounts(response)
  /\ Len(filtered["videos"]) = 3
  /\ "dates" \notin DOMAIN filtered
  /\ response.filter_info.original_records - response.filter_info.filtered_records > 1

KeywordOccurs(q) ==
  \E k \in DOMAIN dataset_keywords : KeywordHits(dataset_keywords[k], lower(q)) > 0

\* C9: determine_relevant_datasets never returns an empty mapping when at least one
\* dataset of the collection has rows, whatever the query, the empty query and
\* keywords that match only empty or absent datasets included.
C9_NeverEmptyRelevance ==
  (pc = "scored" /\ NonEmptyKeys(data) # {}) => DOMAIN relevance # {}

\* a keyword of an empty dataset occurs in the query and only a dataset without
\* keywords has rows: the result is the default relevance of that dataset
C9_Witness ==
  /\ pc = "scored"
  /\ KeywordOccurs(unicode(query))
  /\ NonEmptyKeys(data) = {"dates"}
  /\ "videos" \in DOMAIN data
  /\ relevance = [k \in {"dates"} |-> DefaultRelevance]

\* C10: when no dataset keyword occurs in the query, every dataset that has rows
\* gets exactly 0.3 and no other dataset gets a score; a dataset without rows never
\* appears in the result, in the fallback or otherwise.
C10_UniformFallback ==
  pc = "scored" =>
    /\ ~KeywordOccurs(unicode(query)) =>
          relevance = [k \in NonEmptyKeys(data) |-> DefaultRelevance]
    /\ \A k \in DOMAIN relevance : k \in DOMAIN data /\ ~empty(data[k])

\* a query without keywords on a collection with an empty and two non-empty datasets
C10_Witness ==
  /\ pc = "scored"
  /\ ~KeywordOccurs(unicode(query))
  /\ query # ""
  /\ \E k \in DOMAIN data : empty(data[k])
  /\ Cardinality(NonEmptyKeys(data)) >= 2
  /\ relevance = [k \in NonEmptyKeys(data) |-> DefaultRelevance]

====
